---- MODULE Spec2Model ----
(***************************************************************************)
(* A model of the consensus core of bllvm-consensus: transaction           *)
(* validation (src/src/transaction.rs) and chain reorganization            *)
(* (src/src/reorganization.rs).                                            *)
(*                                                                         *)
(* Conventions.                                                            *)
(*  - Amounts are held in whole coins (1 unit = 10^8 satoshi), so that     *)
(*    MAX_MONEY and sums of a few amounts fit TLC's 32-bit integers.       *)
(*  - A u32 is held as its 32-bit two's-complement pattern, so 0xffffffff  *)
(*    is -1.                                                               *)
(*  - The transaction validator never reads the bytes of a script: a       *)
(*    script_sig or script_pubkey is held as its length in bytes.          *)
(*  - A Result is a record with a field kind ("Ok" / "Err").               *)
(***************************************************************************)
EXTENDS Integers, Sequences, FiniteSets, TLC

VARIABLES
    tx,                 \* the transaction under validation
    utxo_set,           \* UtxoSet: a function from OutPoints to UTXO records
    height,             \* the height validation runs at / the tip height
    coinbase_outpoints, \* history: the outpoints of utxo_set a coinbase created
    tx_result,          \* what check_transaction returned (NoResult before)
    inputs_result,      \* what check_tx_inputs returned (NoResult before)
    current_chain,      \* the blocks of the active chain, in chain order
    new_chain,          \* the candidate chain the block source delivered
    last,               \* the last call and what it returned
    overflow_checks,    \* the build profile: TRUE panics on integer overflow
                        \* (debug), FALSE wraps (release)
    script,             \* the script handed to eval_script
    stack,              \* the stack eval_script and execute_opcode work on
    vm_calls,           \* how many calls have worked on stack
    script_cache,       \* SCRIPT_CACHE: its entries, the most recent first
    production,         \* the build has the "production" feature
    sync,               \* the execute_initial_sync call: its arguments, where
                        \* it stands, the steps it performed and its result
    utxo_tree,          \* the UtxoMerkleTree forward sync works on
    calls,              \* the verify_script calls of the threads: where each
                        \* stands and what it holds
    hash_cache,         \* HASH_CACHE: its entries, the most recent first
    stack_pool          \* STACK_POOL of one thread: its stacks, the front first

txVars == <<tx, coinbase_outpoints, tx_result, inputs_result>>

chainVars == <<current_chain, new_chain, last, overflow_checks>>

scriptVars == <<script, stack, vm_calls, script_cache, production>>

syncVars == <<sync, utxo_tree>>

poolVars == <<calls, hash_cache, stack_pool>>

vars == <<tx, utxo_set, height, coinbase_outpoints, tx_result, inputs_result,
          current_chain, new_chain, last, overflow_checks,
          script, stack, vm_calls, script_cache, production, sync, utxo_tree,
          calls, hash_cache, stack_pool>>

\* No thread is in verify_script, the hash cache and the stack pool are empty
PoolIdle ==
    /\ calls = <<>>
    /\ hash_cache = <<>>
    /\ stack_pool = <<>>

\* No initial sync has been started, the tree is empty
SyncIdle ==
    /\ sync = [pc |-> "idle"]
    /\ utxo_tree = [o \in {} |-> 0]

\* No script has been handed over, the cache is empty
ScriptIdle ==
    /\ script = <<>>
    /\ stack = <<>>
    /\ vm_calls = 0
    /\ script_cache = <<>>
    /\ production = FALSE

----------------------------------------------------------------------------
(* Constants of src/src/constants.rs *)

\* 21,000,000 coins (constants.rs: 21_000_000 * 100_000_000 satoshi)
MAX_MONEY == 21000000

MAX_TX_SIZE == 1000000

MAX_INPUTS == 1000

MAX_OUTPUTS == 1000

COINBASE_MATURITY == 100

\* 50 coins (constants.rs: 50 * 100_000_000 satoshi)
INITIAL_SUBSIDY == 50

\* A Hash is 32 bytes
HASH_LEN == 32

\* prevout.index of a coinbase input: 0xffffffff
COINBASE_INDEX == -1

----------------------------------------------------------------------------
(* Types *)

FilledHash(b) == [i \in 1..HASH_LEN |-> b]

ZeroHash == FilledHash(0)

OutPoint(h, i) == [hash |-> h, index |-> i]

TransactionInput(p, slen) == [prevout |-> p, script_sig |-> slen, sequence |-> -1]

TransactionOutput(v, slen) == [value |-> v, script_pubkey |-> slen]

Transaction(ins, outs) == [version |-> 1, inputs |-> ins, outputs |-> outs, lock_time |-> 0]

UTXO(v, h) == [value |-> v, script_pubkey |-> 0, height |-> h]

Valid == [kind |-> "Valid"]

Invalid(reason) == [kind |-> "Invalid", reason |-> reason]

\* No call has returned yet
NoResult == [kind |-> "none"]

\* The empty UtxoSet
EmptyUtxoSet == [o \in {} |-> UTXO(0, 0)]

----------------------------------------------------------------------------
(* Sums over sequences *)

\* s[lo] + ... + s[hi], halving the range so that long sequences sum in
\* logarithmic depth
RECURSIVE SumRange(_, _, _)
SumRange(s, lo, hi) ==
    IF lo > hi THEN 0
    ELSE IF lo = hi THEN s[lo]
    ELSE LET mid == (lo + hi) \div 2
         IN  SumRange(s, lo, mid) + SumRange(s, mid + 1, hi)

SumSeq(s) == SumRange(s, 1, Len(s))

----------------------------------------------------------------------------
(* src/src/transaction.rs *)

is_coinbase_any_index(t) ==
    /\ Len(t.inputs) = 1
    /\ t.inputs[1].prevout.hash = ZeroHash

is_coinbase(t) ==
    /\ Len(t.inputs) = 1
    /\ t.inputs[1].prevout.hash = ZeroHash
    /\ t.inputs[1].prevout.index = COINBASE_INDEX

calculate_transaction_size(t) ==
    4 + Len(t.inputs) * 41 + Len(t.outputs) * 9 + 4

\* The index of the first output whose value is out of range, 0 if none
FirstBadOutput(t) ==
    LET bad == {i \in 1..Len(t.outputs) :
                   t.outputs[i].value < 0 \/ t.outputs[i].value > MAX_MONEY}
    IN  IF bad = {} THEN 0 ELSE CHOOSE i \in bad : \A j \in bad : i <= j

check_transaction(t) ==
    IF t.inputs = <<>> \/ t.outputs = <<>>
    THEN Invalid("Empty inputs or outputs")
    ELSE IF FirstBadOutput(t) # 0
    THEN Invalid("Invalid output value")
    ELSE IF Len(t.inputs) > MAX_INPUTS
    THEN Invalid("Too many inputs")
    ELSE IF Len(t.outputs) > MAX_OUTPUTS
    THEN Invalid("Too many outputs")
    ELSE IF calculate_transaction_size(t) > MAX_TX_SIZE
    THEN Invalid("Transaction too large")
    ELSE Valid

\* The index of the first input whose prevout is not in the set, 0 if none
FirstMissingInput(t, us) ==
    LET missing == {i \in 1..Len(t.inputs) : t.inputs[i].prevout \notin DOMAIN us}
    IN  IF missing = {} THEN 0 ELSE CHOOSE i \in missing : \A j \in missing : i <= j

\* total_input_value after the loop over the inputs (all of them found)
TotalInputValue(t, us) ==
    SumSeq([i \in 1..Len(t.inputs) |-> us[t.inputs[i].prevout].value])

TotalOutputValue(t) ==
    SumSeq([i \in 1..Len(t.outputs) |-> t.outputs[i].value])

check_tx_inputs_reject_zero_fee(t, us, h) ==
    IF is_coinbase(t)
    THEN [result |-> Valid, fee |-> 0]
    ELSE IF FirstMissingInput(t, us) # 0
    THEN [result |-> Invalid("Input not found in UTXO set"), fee |-> 0]
    ELSE IF TotalInputValue(t, us) <= TotalOutputValue(t)
    THEN [result |-> Invalid("Insufficient input value"), fee |-> 0]
    ELSE [result |-> Valid, fee |-> TotalInputValue(t, us) - TotalOutputValue(t)]

\* The height parameter is unused by the code (_height)
check_tx_inputs(t, us, h) ==
    IF is_coinbase(t)
    THEN [result |-> Valid, fee |-> 0]
    ELSE IF FirstMissingInput(t, us) # 0
    THEN [result |-> Invalid("Input not found in UTXO set"), fee |-> 0]
    ELSE IF TotalInputValue(t, us) < TotalOutputValue(t)
    THEN [result |-> Invalid("Insufficient input value"), fee |-> 0]
    ELSE [result |-> Valid, fee |-> TotalInputValue(t, us) - TotalOutputValue(t)]

----------------------------------------------------------------------------
(* The wire format of a transaction (spec section 6): what "serialized     *)
(* size" means.  VarintLen is the length of encode_varint's output.        *)

VarintLen(n) ==
    IF n < 253 THEN 1 ELSE IF n <= 65535 THEN 3 ELSE 5

SerializedSize(t) ==
    4 + VarintLen(Len(t.inputs))
      + SumSeq([i \in 1..Len(t.inputs) |->
                  36 + VarintLen(t.inputs[i].script_sig) + t.inputs[i].script_sig + 4])
      + VarintLen(Len(t.outputs))
      + SumSeq([i \in 1..Len(t.outputs) |->
                  8 + VarintLen(t.outputs[i].script_pubkey) + t.outputs[i].script_pubkey])
      + 4

----------------------------------------------------------------------------
(* Transaction validation: the inputs the functions are applied to *)

\* Longest input / output list of the enumerated transactions
MaxIns == 2

MaxOuts == 2

\* Script length of the inputs of the large transactions
BigScript == 1000

\* Height of the block that created the coinbase output of the UTXO sets
CreatedAt == 100

CoinbasePrevout == OutPoint(ZeroHash, COINBASE_INDEX)

OutA == OutPoint(FilledHash(1), 0)

OutB == OutPoint(FilledHash(2), 0)

\* Prevouts an input may name: the coinbase marker, its two near misses
\* (wrong index, wrong hash) and two ordinary outpoints
PrevoutChoices ==
    {CoinbasePrevout, OutPoint(ZeroHash, 0), OutPoint(FilledHash(1), COINBASE_INDEX),
     OutA, OutB}

AmountChoices == {-1, 0, 2, MAX_MONEY, MAX_MONEY + 1}

SeqsUpTo(S, n) == UNION {[1..k -> S] : k \in 0..n}

Repeat(x, n) == [i \in 1..n |-> x]

SmallTxs ==
    {Transaction(ins, outs) :
        ins \in SeqsUpTo({TransactionInput(p, 0) : p \in PrevoutChoices}, MaxIns),
        outs \in SeqsUpTo({TransactionOutput(v, 0) : v \in AmountChoices}, MaxOuts)}

\* Transactions at the count limits, with empty and with BigScript-byte scripts
BigTxs ==
    {Transaction(Repeat(TransactionInput(OutB, slen), n), Repeat(TransactionOutput(0, 0), m)) :
        n \in {MAX_INPUTS, MAX_INPUTS + 1},
        m \in {1, MAX_OUTPUTS, MAX_OUTPUTS + 1},
        slen \in {0, BigScript}}

\* UTXO sets: OutA, when present, is a coinbase output created at CreatedAt;
\* OutB, when present, is an ordinary output
UtxoSets ==
    {[o \in dom |-> IF o = OutA THEN UTXO(va, CreatedAt) ELSE UTXO(2, 0)] :
        dom \in SUBSET {OutA, OutB}, va \in {2, MAX_MONEY}}

SpendHeights ==
    {CreatedAt + COINBASE_MATURITY - 1, CreatedAt + COINBASE_MATURITY}

InitTx ==
    /\ PoolIdle
    /\ SyncIdle
    /\ tx \in SmallTxs \cup BigTxs
    /\ utxo_set \in UtxoSets
    /\ coinbase_outpoints = DOMAIN utxo_set \cap {OutA}
    /\ height \in SpendHeights
    /\ tx_result = NoResult
    /\ inputs_result = NoResult
    /\ current_chain = <<>>
    /\ new_chain = <<>>
    /\ last = [op |-> "none"]
    /\ overflow_checks = TRUE
    /\ ScriptIdle

\* check_transaction comes first (spec 4.E: ordering)
CheckTransaction ==
    /\ tx_result = NoResult
    /\ tx_result' = check_transaction(tx)
    /\ UNCHANGED <<tx, utxo_set, height, coinbase_outpoints, inputs_result>>
    /\ UNCHANGED <<chainVars, scriptVars, syncVars, poolVars>>

CheckTxInputs ==
    /\ tx_result # NoResult
    /\ inputs_result = NoResult
    /\ inputs_result' = check_tx_inputs(tx, utxo_set, height)
    /\ UNCHANGED <<tx, utxo_set, height, coinbase_outpoints, tx_result>>
    /\ UNCHANGED <<chainVars, scriptVars, syncVars, poolVars>>

NextTx == CheckTransaction \/ CheckTxInputs

SpecTx == InitTx /\ [][NextTx]_vars

----------------------------------------------------------------------------
(* Properties of transaction validation, checked under SpecTx *)

\* What the data model calls a coinbase transaction: exactly one input, whose
\* prevout hash is all-zero and whose prevout index is 0xffffffff
CoinbaseShape(t) ==
    /\ Len(t.inputs) = 1
    /\ \A i \in 1..HASH_LEN : t.inputs[1].prevout.hash[i] = 0
    /\ t.inputs[1].prevout.index = -1

AmountsOf(t) == [i \in 1..Len(t.outputs) |-> t.outputs[i].value]

\* C6: a transaction check_transaction finds Valid has 1..1000 inputs,
\* 1..1000 outputs, every output value in [0, MAX_MONEY] and a serialized
\* size (script bytes included) of at most 1,000,000 bytes.
C6_ValidWithinLimits ==
    tx_result = Valid =>
        /\ Len(tx.inputs) \in 1..1000
        /\ Len(tx.outputs) \in 1..1000
        /\ \A i \in 1..Len(tx.outputs) :
               tx.outputs[i].value >= 0 /\ tx.outputs[i].value <= MAX_MONEY
        /\ SerializedSize(tx) <= 1000000

\* C7: check_transaction returns Invalid for every transaction whose output
\* values sum to more than MAX_MONEY, also when each value alone is in range.
C7_OutputSumAboveMaxMoneyInvalid ==
    (tx_result # NoResult /\ SumSeq(AmountsOf(tx)) > MAX_MONEY)
        => tx_result.kind = "Invalid"

\* An input of tx spends a coinbase output that is fewer than 100 blocks deep
SpendsImmatureCoinbase ==
    \E i \in 1..Len(tx.inputs) :
        /\ tx.inputs[i].prevout \in coinbase_outpoints
        /\ height - utxo_set[tx.inputs[i].prevout].height < COINBASE_MATURITY

\* C8: check_tx_inputs returns Invalid whenever an input spends a coinbase
\* output with height - utxo.height < 100 (created at 100, spent at 199).
C8_ImmatureCoinbaseInvalid ==
    (inputs_result # NoResult /\ SpendsImmatureCoinbase)
        => inputs_result.result.kind = "Invalid"

\* C9: check_tx_inputs returns (Valid, 0) for every coinbase transaction,
\* whatever the UTXO set and the height, and is_coinbase is true of exactly
\* the transactions with one input, an all-zero prevout hash and prevout
\* index 0xffffffff.
C9_CoinbaseValidZeroFee ==
    /\ is_coinbase(tx) <=> CoinbaseShape(tx)
    /\ (inputs_result # NoResult /\ CoinbaseShape(tx))
           => inputs_result = [result |-> Valid, fee |-> 0]

\* check_tx_inputs has returned for a coinbase transaction that pays out,
\* against a UTXO set that is not empty
C9_Witness ==
    /\ inputs_result # NoResult
    /\ CoinbaseShape(tx)
    /\ Len(tx.outputs) = 1 /\ tx.outputs[1].value = MAX_MONEY
    /\ DOMAIN utxo_set # {}

InputAmountsOf(t, us) == [i \in 1..Len(t.inputs) |-> us[t.inputs[i].prevout].value]

\* C10: for a non-coinbase transaction check_tx_inputs returns (Invalid, 0)
\* if a prevout is absent from the UTXO set, (Invalid, 0) if the input values
\* sum to less than the output values, and otherwise (Valid, fee) with
\* fee = sum of input values - sum of output values; a Valid result never
\* carries a negative fee.
C10_FeeAccounting ==
    (inputs_result # NoResult /\ ~CoinbaseShape(tx)) =>
        /\ IF \E i \in 1..Len(tx.inputs) : tx.inputs[i].prevout \notin DOMAIN utxo_set
           THEN inputs_result.result.kind = "Invalid" /\ inputs_result.fee = 0
           ELSE IF SumSeq(InputAmountsOf(tx, utxo_set)) < SumSeq(AmountsOf(tx))
           THEN inputs_result.result.kind = "Invalid" /\ inputs_result.fee = 0
           ELSE /\ inputs_result.result = Valid
                /\ inputs_result.fee =
                       SumSeq(InputAmountsOf(tx, utxo_set)) - SumSeq(AmountsOf(tx))
        /\ inputs_result.result = Valid => inputs_result.fee >= 0

\* check_tx_inputs has accepted a two-input spend that leaves a positive fee
C10_Witness ==
    /\ inputs_result # NoResult
    /\ ~CoinbaseShape(tx)
    /\ Len(tx.inputs) = 2
    /\ inputs_result.result = Valid
    /\ inputs_result.fee > 0

----------------------------------------------------------------------------
(* u128 arithmetic.  A u128 is held as its 32 hexadecimal digits, most     *)
(* significant first.  A target is mantissa << shift with a 24-bit         *)
(* mantissa and a shift that is a multiple of 8 below 104: it is held as   *)
(* the pair [m, s] (the u128 m * 2^s).                                     *)

\* Hexadecimal digits of a u128
U128_DIGITS == 32

U128Zero == [d \in 1..U128_DIGITS |-> 0]

\* The n low digits of floor((16^n - 1 + rem * 16^n) / m), by long division
RECURSIVE LongDivOnes(_, _, _)
LongDivOnes(n, m, rem) ==
    IF n = 0 THEN <<>>
    ELSE LET cur == rem * 16 + 15
         IN  <<cur \div m>> \o LongDivOnes(n - 1, m, cur % m)

\* u128::MAX / target for target = m * 2^s > 0:
\* floor((2^128 - 1) / (m * 2^s)) = floor((2^(128 - s) - 1) / m)
U128MaxDiv(target) ==
    LET nd == U128_DIGITS - (target.s \div 4)
    IN  [i \in 1..(U128_DIGITS - nd) |-> 0] \o LongDivOnes(nd, target.m, 0)

\* a + b digit by digit from the least significant digit i down to digit 1;
\* low holds the digits of the sum below digit i
RECURSIVE AddDigits(_, _, _, _, _)
AddDigits(a, b, i, carry, low) ==
    IF i = 0 THEN [digits |-> low, carry |-> carry]
    ELSE AddDigits(a, b, i - 1, (a[i] + b[i] + carry) \div 16,
                   <<(a[i] + b[i] + carry) % 16>> \o low)

\* a + b: the wrapped sum and whether it overflowed
U128Add(a, b) == AddDigits(a, b, U128_DIGITS, 0, <<>>)

U128Greater(a, b) ==
    \E i \in 1..U128_DIGITS :
        /\ a[i] > b[i]
        /\ \A j \in 1..(i - 1) : a[j] = b[j]

----------------------------------------------------------------------------
(* src/src/reorganization.rs *)

Ok(v) == [kind |-> "Ok", value |-> v]

Err(e) == [kind |-> "Err", error |-> e]

\* The call panicked (an arithmetic overflow under overflow checks)
Panic == [kind |-> "Panic"]

\* exponent and shift are u8: 8 * (exponent - 3) overflows from exponent 35 on
expand_target(bits) ==
    LET exponent == (bits \div 16777216) % 256
        mantissa == bits % 16777216
    IN  IF exponent <= 3
        THEN Ok([m |-> mantissa \div (2 ^ (8 * (3 - exponent))), s |-> 0])
        ELSE IF 8 * (exponent - 3) > 255 /\ overflow_checks
        THEN Panic
        ELSE LET shift == (8 * (exponent - 3)) % 256
             IN  IF shift >= 104
                 THEN Err("InvalidProofOfWork: Target too large")
                 ELSE Ok([m |-> mantissa, s |-> shift])

\* The loop of calculate_chain_work from block i on, total_work so far
RECURSIVE ChainWorkFrom(_, _, _)
ChainWorkFrom(chain, i, total_work) ==
    IF i > Len(chain) THEN Ok(total_work)
    ELSE LET target == expand_target(chain[i].header.bits)
         IN  IF target.kind # "Ok" THEN target
             ELSE IF target.value.m > 0
             THEN LET sum == U128Add(total_work, U128MaxDiv(target.value))
                  IN  IF sum.carry > 0 /\ overflow_checks
                      THEN Panic
                      ELSE ChainWorkFrom(chain, i + 1, sum.digits)
             ELSE ChainWorkFrom(chain, i + 1, total_work)

calculate_chain_work(chain) == ChainWorkFrom(chain, 1, U128Zero)

\* A variant that compares the work of the two chains whatever their lengths
should_reorganize_by_work(candidate, current) ==
    LET new_work == calculate_chain_work(candidate)
        current_work == calculate_chain_work(current)
    IN  IF new_work.kind # "Ok" THEN new_work
        ELSE IF current_work.kind # "Ok" THEN current_work
        ELSE Ok(U128Greater(new_work.value, current_work.value))

should_reorganize(candidate, current) ==
    IF Len(candidate) > Len(current) THEN Ok(TRUE)
    ELSE IF Len(candidate) = Len(current)
    THEN LET new_work == calculate_chain_work(candidate)
             current_work == calculate_chain_work(current)
         IN  IF new_work.kind # "Ok" THEN new_work
             ELSE IF current_work.kind # "Ok" THEN current_work
             ELSE Ok(U128Greater(new_work.value, current_work.value))
    ELSE Ok(FALSE)

\* hash[0..3] = version, |inputs|, |outputs|, lock_time (each & 0xff), the
\* other 28 bytes zero
calculate_tx_id(t) ==
    [i \in 1..HASH_LEN |->
        CASE i = 1 -> t.version % 256
          [] i = 2 -> Len(t.inputs) % 256
          [] i = 3 -> Len(t.outputs) % 256
          [] i = 4 -> t.lock_time % 256
          [] OTHER -> 0]

\* The outpoints (tx_id, 0 .. |outputs| - 1) of the outputs of a transaction
CreatedOutpoints(t) ==
    {OutPoint(calculate_tx_id(t), i - 1) : i \in 1..Len(t.outputs)}

\* Removes the outputs the block created; the spent inputs are not restored
\* (the loop over tx.inputs has an empty body)
disconnect_block(block, us, h) ==
    LET created == UNION {CreatedOutpoints(block.transactions[k]) :
                             k \in 1..Len(block.transactions)}
    IN  Ok([o \in DOMAIN us \ created |-> us[o]])

find_common_ancestor(candidate, current) ==
    IF candidate = <<>> \/ current = <<>>
    THEN Err("Cannot find common ancestor: empty chain")
    ELSE Ok(current[1].header)

----------------------------------------------------------------------------
(* connect_block (crate::block, spec sections 4.F and 4.H).  The first     *)
(* transaction must be the coinbase and no other may be; each transaction  *)
(* must pass check_transaction and check_tx_inputs against the set as the  *)
(* transactions before it left it; then its non-coinbase prevouts are      *)
(* removed and its outputs inserted at (txid, index) with the block's      *)
(* height.  A block that fails leaves the set as it was.  The header-level *)
(* checks (proof of work, timestamp, merkle root) are taken to pass.       *)

ApplyTransaction(t, us, h) ==
    LET spent == IF is_coinbase(t) THEN {}
                 ELSE {t.inputs[i].prevout : i \in 1..Len(t.inputs)}
        created == CreatedOutpoints(t)
    IN  [o \in (DOMAIN us \ spent) \cup created |->
            IF o \in created
            THEN [value |-> t.outputs[o.index + 1].value,
                  script_pubkey |-> t.outputs[o.index + 1].script_pubkey,
                  height |-> h]
            ELSE us[o]]

RECURSIVE ApplyTransactions(_, _, _, _)
ApplyTransactions(txs, i, us, h) ==
    IF i > Len(txs) THEN [result |-> Valid, utxo_set |-> us]
    ELSE IF (i = 1) # is_coinbase(txs[i])
    THEN [result |-> Invalid("Coinbase must be the first transaction and only the first")]
    ELSE IF check_transaction(txs[i]) # Valid
    THEN [result |-> check_transaction(txs[i])]
    ELSE IF check_tx_inputs(txs[i], us, h).result # Valid
    THEN [result |-> check_tx_inputs(txs[i], us, h).result]
    ELSE ApplyTransactions(txs, i + 1, ApplyTransaction(txs[i], us, h), h)

connect_block(block, us, h) ==
    IF block.transactions = <<>>
    THEN Ok([result |-> Invalid("Block has no coinbase"), utxo_set |-> us])
    ELSE LET applied == ApplyTransactions(block.transactions, 1, us, h)
         IN  IF applied.result = Valid
             THEN Ok([result |-> Valid, utxo_set |-> applied.utxo_set])
             ELSE Ok([result |-> applied.result, utxo_set |-> us])

----------------------------------------------------------------------------
(* reorganize_chain *)

\* The loop "for i in (0..current_chain.len()).rev()": blocks i, i - 1, .. 1
RECURSIVE DisconnectFrom(_, _, _)
DisconnectFrom(current, i, us) ==
    IF i = 0 THEN Ok(us)
    ELSE LET r == disconnect_block(current[i], us, i)
         IN  IF r.kind # "Ok" THEN r ELSE DisconnectFrom(current, i - 1, r.value)

\* A variant that stops at the first block that does not connect and keeps
\* what it connected so far
RECURSIVE ConnectFromKeepingPartial(_, _, _, _, _)
ConnectFromKeepingPartial(candidate, i, us, new_height, connected_blocks) ==
    IF i > Len(candidate)
    THEN Ok([new_utxo_set |-> us, new_height |-> new_height,
             connected_blocks |-> connected_blocks])
    ELSE LET r == connect_block(candidate[i], us, new_height + 1)
         IN  IF r.kind # "Ok" THEN r
             ELSE IF r.value.result # Valid
             THEN Ok([new_utxo_set |-> us, new_height |-> new_height,
                      connected_blocks |-> connected_blocks])
             ELSE ConnectFromKeepingPartial(candidate, i + 1, r.value.utxo_set,
                                            new_height + 1,
                                            Append(connected_blocks, candidate[i]))

\* The loop "for block in candidate" from block i on
RECURSIVE ConnectFrom(_, _, _, _, _)
ConnectFrom(candidate, i, us, new_height, connected_blocks) ==
    IF i > Len(candidate)
    THEN Ok([new_utxo_set |-> us, new_height |-> new_height,
             connected_blocks |-> connected_blocks])
    ELSE LET r == connect_block(candidate[i], us, new_height + 1)
         IN  IF r.kind # "Ok" THEN r
             ELSE IF r.value.result # Valid
             THEN Err("ConsensusRuleViolation: Invalid block during reorganization")
             ELSE ConnectFrom(candidate, i + 1, r.value.utxo_set, new_height + 1,
                              Append(connected_blocks, candidate[i]))

\* current_height - current_chain.len() + 1 in the unsigned height type,
\* left to right: the subtraction underflows when current_height is below
\* the length; wrapping, the addition of 1 brings a difference of -1 back
\* to 0
StartHeight(current_height, n) ==
    IF current_height - n < 0 /\ overflow_checks
    THEN Panic
    ELSE Ok(current_height - n + 1)

reorganize_chain(candidate, current, current_utxo_set, current_height) ==
    LET common_ancestor == find_common_ancestor(candidate, current)
    IN  IF common_ancestor.kind # "Ok" THEN common_ancestor
        ELSE
        LET disconnected == DisconnectFrom(current, Len(current), current_utxo_set)
        IN  IF disconnected.kind # "Ok" THEN disconnected
            ELSE
            LET start == StartHeight(current_height, Len(current))
            IN  IF start.kind # "Ok" THEN start
                ELSE
                LET c == ConnectFrom(candidate, 1, disconnected.value, start.value, <<>>)
                IN  IF c.kind # "Ok" THEN c
                    ELSE Ok([new_utxo_set |-> c.value.new_utxo_set,
                             new_height |-> c.value.new_height,
                             common_ancestor |-> common_ancestor.value,
                             disconnected_blocks |-> current,
                             connected_blocks |-> c.value.connected_blocks,
                             reorganization_depth |-> Len(current)])

----------------------------------------------------------------------------
(* The chain state: the blocks the functions are applied to.               *)
(* A block is named by its path: the labels of the blocks from the first   *)
(* block of the chain down to it.  PathHash(p) stands for the hash of the  *)
(* header of the block at path p, so prev_block_hash links each block to   *)
(* its parent; blocks with label 1 have bits 0x0200ffff, blocks with label *)
(* 2 have bits 0x0300ffff and also spend the outpoint FundOut.             *)

\* Longest chain
MaxChain == 4

\* reorganize_chain and connect_block are not called above this tip height
MaxHeight == 5

Labels == {1, 2}

Paths == UNION {[1..k -> Labels] : k \in 0..MaxChain}

PathHash(p) == [i \in 1..HASH_LEN |-> IF i <= Len(p) THEN p[i] ELSE 0]

\* 0x0200ffff and 0x0300ffff
BitsOf(label) ==
    IF label = 1 THEN 2 * 16777216 + 65535 ELSE 3 * 16777216 + 65535

FundOut == OutPoint(FilledHash(2), 0)

\* The UTXO set below the first block of the chain
FundedSet == [o \in {FundOut} |-> UTXO(2, 0)]

CoinbaseTx(p) ==
    [version |-> p[Len(p)],
     inputs |-> <<TransactionInput(CoinbasePrevout, 1)>>,
     outputs |-> <<TransactionOutput(INITIAL_SUBSIDY, 1)>>,
     lock_time |-> Len(p)]

SpendTx ==
    [version |-> 1,
     inputs |-> <<TransactionInput(FundOut, 1)>>,
     outputs |-> <<TransactionOutput(1, 1)>>,
     lock_time |-> 0]

BlockAt(p) ==
    [header |-> [version |-> 1,
                 prev_block_hash |-> PathHash(SubSeq(p, 1, Len(p) - 1)),
                 merkle_root |-> ZeroHash,
                 timestamp |-> Len(p),
                 bits |-> BitsOf(p[Len(p)]),
                 nonce |-> p[Len(p)]],
     transactions |-> IF p[Len(p)] = 2 THEN <<CoinbaseTx(p), SpendTx>>
                      ELSE <<CoinbaseTx(p)>>]

ChainAt(p) == [i \in 1..Len(p) |-> BlockAt(SubSeq(p, 1, i))]

PathOf(chain) == [i \in 1..Len(chain) |-> chain[i].header.nonce]

\* The first block of the chain is connected, at height 0 or 1
InitReorg ==
    /\ PoolIdle
    /\ SyncIdle
    /\ \E label \in Labels, h \in {0, 1} :
          /\ current_chain = ChainAt(<<label>>)
          /\ height = h
          /\ utxo_set = connect_block(BlockAt(<<label>>), FundedSet, h).value.utxo_set
    /\ \E p \in Paths : new_chain = ChainAt(p)
    /\ overflow_checks \in BOOLEAN
    /\ last = [op |-> "none"]
    /\ tx = Transaction(<<>>, <<>>)
    /\ coinbase_outpoints = {}
    /\ tx_result = NoResult
    /\ inputs_result = NoResult
    /\ ScriptIdle

ShouldReorganize ==
    /\ last' = [op |-> "should_reorganize",
                ret |-> should_reorganize(new_chain, current_chain)]
    /\ UNCHANGED <<utxo_set, height, current_chain, new_chain, overflow_checks>>
    /\ UNCHANGED <<txVars, scriptVars, syncVars, poolVars>>

\* The caller hands its set over and installs what an Ok result carries; an
\* Err (or a panic) carries no set and the caller keeps what it had
ReorganizeChain ==
    LET r == reorganize_chain(new_chain, current_chain, utxo_set, height)
    IN  /\ height <= MaxHeight
        /\ last' = [op |-> "reorganize_chain",
                    old_chain |-> current_chain,
                    old_utxo_set |-> utxo_set,
                    old_height |-> height,
                    ret |-> r]
        /\ IF r.kind = "Ok"
           THEN /\ utxo_set' = r.value.new_utxo_set
                /\ height' = r.value.new_height
                /\ current_chain' = new_chain
           ELSE UNCHANGED <<utxo_set, height, current_chain>>
        /\ UNCHANGED <<new_chain, overflow_checks>>
        /\ UNCHANGED <<txVars, scriptVars, syncVars, poolVars>>

\* Extends the tip by one of its children, at the next height
ConnectBlock ==
    \E label \in Labels :
        LET block == BlockAt(Append(PathOf(current_chain), label))
            r == connect_block(block, utxo_set, height + 1)
        IN  /\ Len(current_chain) < MaxChain
            /\ height <= MaxHeight
            /\ last' = [op |-> "connect_block",
                        block |-> block,
                        old_utxo_set |-> utxo_set,
                        ret |-> r]
            /\ IF r.value.result = Valid
               THEN /\ utxo_set' = r.value.utxo_set
                    /\ height' = height + 1
                    /\ current_chain' = Append(current_chain, block)
               ELSE UNCHANGED <<utxo_set, height, current_chain>>
            /\ UNCHANGED <<new_chain, overflow_checks>>
            /\ UNCHANGED <<txVars, scriptVars, syncVars, poolVars>>

\* Disconnects the tip.  round_trip holds the set the tip was connected to
\* when the connect was the call just before, and is empty otherwise.
DisconnectBlock ==
    LET block == current_chain[Len(current_chain)]
        r == disconnect_block(block, utxo_set, height)
    IN  /\ Len(current_chain) > 1
        /\ last' = [op |-> "disconnect_block",
                    block |-> block,
                    round_trip |-> IF last.op = "connect_block" /\ last.ret.value.result = Valid
                                   THEN <<last.old_utxo_set>>
                                   ELSE <<>>,
                    ret |-> r]
        /\ utxo_set' = r.value
        /\ height' = height - 1
        /\ current_chain' = SubSeq(current_chain, 1, Len(current_chain) - 1)
        /\ UNCHANGED <<new_chain, overflow_checks>>
        /\ UNCHANGED <<txVars, scriptVars, syncVars, poolVars>>

NextReorg == ShouldReorganize \/ ReorganizeChain \/ ConnectBlock \/ DisconnectBlock

SpecReorg == InitReorg /\ [][NextReorg]_vars

----------------------------------------------------------------------------
(* Properties of the chain functions, over SpecReorg *)

ChainWorkOf(chain) == calculate_chain_work(chain).value

\* Number of leading blocks two chains have in common
CommonPrefixLen(a, b) ==
    Cardinality({k \in 1..Len(a) :
                    k <= Len(b) /\ SubSeq(a, 1, k) = SubSeq(b, 1, k)})

Reverse(s) == [i \in 1..Len(s) |-> s[Len(s) + 1 - i]]

Headers(chain) == {chain[i].header : i \in 1..Len(chain)}

\* The last call was reorganize_chain and it returned Ok
ReorganizeReturnedOk == last.op = "reorganize_chain" /\ last.ret.kind = "Ok"

\* C1: for non-empty chains should_reorganize returns true exactly when the
\* new chain has strictly more work than the current chain, whatever the
\* lengths of the two chains
C1_ReorganizeIffMoreWork ==
    (last.op = "should_reorganize" /\ new_chain # <<>> /\ current_chain # <<>>)
    => /\ last.ret.kind = "Ok"
       /\ last.ret.value = U128Greater(ChainWorkOf(new_chain),
                                       ChainWorkOf(current_chain))

\* C2: disconnecting a block from the set its connect produced gives back
\* the set the block was connected to
C2_DisconnectRestoresSet ==
    (last.op = "disconnect_block" /\ last.round_trip # <<>>)
    => /\ last.ret.kind = "Ok"
       /\ last.ret.value = last.round_trip[1]

C4_DisconnectsAboveAncestor ==
    LET k == CommonPrefixLen(last.old_chain, new_chain)
        n == Len(last.old_chain)
    IN  (ReorganizeReturnedOk /\ k > 0)
        => /\ last.ret.value.disconnected_blocks =
                  Reverse(SubSeq(last.old_chain, k + 1, n))
           /\ last.ret.value.connected_blocks =
                  SubSeq(new_chain, k + 1, Len(new_chain))
           /\ last.ret.value.reorganization_depth = n - k

\* C5: reorganize_chain fails when the chains share no block, and otherwise
\* reports the header at which the two chains meet, a header of both chains
C5_CommonAncestorInBothChains ==
    LET k == CommonPrefixLen(last.old_chain, new_chain)
    IN  last.op = "reorganize_chain"
        => IF Headers(last.old_chain) \cap Headers(new_chain) = {}
           THEN last.ret.kind # "Ok"
           ELSE last.ret.kind = "Ok"
                => /\ last.ret.value.common_ancestor \in Headers(last.old_chain)
                   /\ last.ret.value.common_ancestor \in Headers(new_chain)
                   /\ last.ret.value.common_ancestor = new_chain[k].header

----------------------------------------------------------------------------
(* src/src/transaction_hash.rs.  A byte string is a sequence of numbers in *)
(* 0..255.  The fixed-width fields have the widths the source's comments   *)
(* give them: version, index, sequence and lock_time 4 bytes, value 8.      *)

\* n.to_le_bytes() for a k-byte integer held in two's complement
LEBytes(n, k) ==
    [i \in 1..k |-> IF i <= 4 THEN (n \div (256 ^ (i - 1))) % 256
                    ELSE IF n < 0 THEN 255 ELSE 0]

\* A u64 is held as its 8 bytes, least significant first.  n as u64, for a
\* length n
U64(n) == LEBytes(n, 8)

\* 0xffffffff as u64
U64_U32_MAX == <<255, 255, 255, 255, 0, 0, 0, 0>>

\* a < b for two u64: they differ, and a has the smaller byte at the most
\* significant place where they do
U64Less(a, b) ==
    \E i \in 1..8 :
        /\ a[i] < b[i]
        /\ \A j \in (i + 1)..8 : a[j] = b[j]

\* A variant that takes the single-byte form up to 0xfd included
encode_varint_single_byte_to_fd(value) ==
    IF ~U64Less(U64(253), value) THEN <<value[1]>>
    ELSE IF ~U64Less(U64(65535), value) THEN <<253>> \o SubSeq(value, 1, 2)
    ELSE IF ~U64Less(U64_U32_MAX, value) THEN <<254>> \o SubSeq(value, 1, 4)
    ELSE <<255>> \o value

\* "value as u8", "as u16" and "as u32" keep the low 1, 2 and 4 bytes
encode_varint(value) ==
    IF U64Less(value, U64(253)) THEN <<value[1]>>
    ELSE IF ~U64Less(U64(65535), value) THEN <<253>> \o SubSeq(value, 1, 2)
    ELSE IF ~U64Less(U64_U32_MAX, value) THEN <<254>> \o SubSeq(value, 1, 4)
    ELSE <<255>> \o value

\* The variants of SighashType with their discriminants
SighashAll == [variant |-> "All", discriminant |-> 1]

SighashNone == [variant |-> "None", discriminant |-> 2]

SighashSingle == [variant |-> "Single", discriminant |-> 3]

SighashAnyoneCanPay == [variant |-> "AnyoneCanPay", discriminant |-> 128]

SighashTypes == {SighashAll, SighashNone, SighashSingle, SighashAnyoneCanPay}

\* impl BitOr for SighashType: every arm gives back the left operand
SighashBitOr(self, rhs) == self

from_byte(byte) ==
    CASE byte = 1 -> Ok(SighashAll)
      [] byte = 2 -> Ok(SighashNone)
      [] byte = 3 -> Ok(SighashSingle)
      [] byte = 129 -> Ok(SighashBitOr(SighashAll, SighashAnyoneCanPay))
      [] byte = 130 -> Ok(SighashBitOr(SighashNone, SighashAnyoneCanPay))
      [] byte = 131 -> Ok(SighashBitOr(SighashSingle, SighashAnyoneCanPay))
      [] OTHER -> Err("InvalidSighashType")

\* Sha256::digest(Sha256::digest(preimage)): a 32-byte digest, held as the
\* preimage it was computed from (distinct preimages, distinct digests)
Sha256d(preimage) == [len |-> HASH_LEN, digest_of |-> preimage]

Concat(seqs) ==
    LET RECURSIVE Flat(_)
        Flat(i) == IF i > Len(seqs) THEN <<>> ELSE seqs[i] \o Flat(i + 1)
    IN  Flat(1)

\* One input of the preimage: in full, or the dummy values
SighashInput(input, in_full) ==
    IF in_full
    THEN input.prevout.hash \o LEBytes(input.prevout.index, 4)
         \o encode_varint(U64(Len(input.script_sig))) \o input.script_sig
         \o LEBytes(input.sequence, 4)
    ELSE ZeroHash \o LEBytes(0, 4) \o <<0>> \o LEBytes(0, 4)

\* Step 3: an input is emitted in full when the type is the variant
\* AnyoneCanPay or it is the input being signed (input_index counts from 0)
InputsSection(t, input_index, sighash_type) ==
    Concat([i \in 1..Len(t.inputs) |->
              SighashInput(t.inputs[i],
                           sighash_type = SighashAnyoneCanPay
                           \/ i - 1 = input_index)])

SighashOutput(output) ==
    LEBytes(output.value, 8) \o encode_varint(U64(Len(output.script_pubkey)))
    \o output.script_pubkey

\* A variant in which Single emits the first output whatever the index
OutputsSectionSingleFirst(t, input_index, sighash_type) ==
    CASE sighash_type = SighashNone -> <<>>
      [] sighash_type = SighashSingle ->
            IF 0 < Len(t.outputs) THEN SighashOutput(t.outputs[1]) ELSE <<>>
      [] OTHER -> Concat([i \in 1..Len(t.outputs) |-> SighashOutput(t.outputs[i])])

\* Step 5
OutputsSection(t, input_index, sighash_type) ==
    CASE sighash_type = SighashNone -> <<>>
      [] sighash_type = SighashSingle ->
            IF input_index < Len(t.outputs)
            THEN SighashOutput(t.outputs[input_index + 1])
            ELSE <<>>
      [] OTHER -> Concat([i \in 1..Len(t.outputs) |-> SighashOutput(t.outputs[i])])

\* Step 7: sighash_type as u32, little endian
SighashTypeBytes(sighash_type) == LEBytes(sighash_type.discriminant, 4)

SighashPreimage(t, input_index, sighash_type) ==
    LEBytes(t.version, 4)
    \o encode_varint(U64(Len(t.inputs)))
    \o InputsSection(t, input_index, sighash_type)
    \o encode_varint(U64(Len(t.outputs)))
    \o OutputsSection(t, input_index, sighash_type)
    \o LEBytes(t.lock_time, 4)
    \o SighashTypeBytes(sighash_type)

\* A variant that validates the prevouts before the input index
calculate_transaction_sighash_prevouts_first(t, input_index, prevouts, sighash_type) ==
    IF Len(prevouts) # Len(t.inputs) THEN Err("InvalidPrevoutsCount")
    ELSE IF input_index >= Len(t.inputs) THEN Err("InvalidInputIndex")
    ELSE Ok(Sha256d(SighashPreimage(t, input_index, sighash_type)))

calculate_transaction_sighash(t, input_index, prevouts, sighash_type) ==
    IF input_index >= Len(t.inputs) THEN Err("InvalidInputIndex")
    ELSE IF Len(prevouts) # Len(t.inputs) THEN Err("InvalidPrevoutsCount")
    ELSE Ok(Sha256d(SighashPreimage(t, input_index, sighash_type)))

----------------------------------------------------------------------------
(* The calls on the signing hash.  Scripts are held as their bytes here.   *)

\* Most inputs and outputs of a transaction to sign
MaxSigIns == 2

MaxSigOuts == 2

SigInput(h, index, script_sig, sequence) ==
    [prevout |-> OutPoint(h, index), script_sig |-> script_sig,
     sequence |-> sequence]

SigInputs == {SigInput(FilledHash(1), 0, <<81>>, -1),
              SigInput(FilledHash(2), 1, <<>>, 0)}

\* What an input may be changed into
AltSigInputs == SigInputs \cup {SigInput(FilledHash(1), 1, <<81>>, -1),
                                SigInput(FilledHash(1), 0, <<81, 81>>, -1),
                                SigInput(FilledHash(1), 0, <<81>>, 0)}

SigOutputs == {[value |-> 1, script_pubkey |-> <<81>>],
               [value |-> 2, script_pubkey |-> <<>>]}

SigTxs ==
    {[version |-> 1, inputs |-> ins, outputs |-> outs, lock_time |-> 0] :
        ins \in SeqsUpTo(SigInputs, MaxSigIns),
        outs \in SeqsUpTo(SigOutputs, MaxSigOuts)}

\* The type bytes tried: the six that parse, their neighbours and the ends
TypeBytes == {0, 1, 2, 3, 4, 128, 129, 130, 131, 132, 255}

InitSighash ==
    /\ PoolIdle
    /\ SyncIdle
    /\ tx \in SigTxs
    /\ utxo_set = EmptyUtxoSet
    /\ height = 0
    /\ coinbase_outpoints = {}
    /\ tx_result = NoResult
    /\ inputs_result = NoResult
    /\ current_chain = <<>>
    /\ new_chain = <<>>
    /\ last = [op |-> "none"]
    /\ overflow_checks = TRUE
    /\ ScriptIdle

FromByte ==
    \E byte \in TypeBytes :
        /\ last' = [op |-> "from_byte", byte |-> byte, ret |-> from_byte(byte)]
        /\ UNCHANGED <<utxo_set, height, current_chain, new_chain, overflow_checks>>
        /\ UNCHANGED <<txVars, scriptVars, syncVars, poolVars>>

CalculateTransactionSighash ==
    \E input_index \in 0..MaxSigIns, n \in 0..MaxSigIns,
       sighash_type \in SighashTypes :
        LET prevouts == Repeat([value |-> 1, script_pubkey |-> <<81>>], n)
        IN  /\ last' = [op |-> "calculate_transaction_sighash",
                        input_index |-> input_index,
                        prevouts |-> prevouts,
                        sighash_type |-> sighash_type,
                        ret |-> calculate_transaction_sighash(
                                    tx, input_index, prevouts, sighash_type)]
            /\ UNCHANGED <<utxo_set, height, current_chain, new_chain, overflow_checks>>
            /\ UNCHANGED <<txVars, scriptVars, syncVars, poolVars>>

NextSighash == FromByte \/ CalculateTransactionSighash

SpecSighash == InitSighash /\ [][NextSighash]_vars

\* The u64 values encode_varint is called with: the bytes are 0 but for
\* the lowest five and the highest, which take the values at the edges of
\* the four forms (0, 252, 253, 65535, 65536, 0xffffffff, 2^32 and above)
VarintValues ==
    {<<b1, b2, b3, b4, b5, 0, 0, b8>> :
        b1 \in {0, 252, 253, 255}, b2 \in {0, 255}, b3 \in {0, 1, 255},
        b4 \in {0, 255}, b5 \in {0, 1}, b8 \in {0, 255}}

InitVarint ==
    /\ PoolIdle
    /\ SyncIdle
    /\ last = [op |-> "none"]
    /\ tx = Transaction(<<>>, <<>>)
    /\ utxo_set = EmptyUtxoSet
    /\ height = 0
    /\ coinbase_outpoints = {}
    /\ tx_result = NoResult
    /\ inputs_result = NoResult
    /\ current_chain = <<>>
    /\ new_chain = <<>>
    /\ overflow_checks = TRUE
    /\ ScriptIdle

EncodeVarint ==
    \E value \in VarintValues :
        /\ last' = [op |-> "encode_varint", value |-> value,
                    ret |-> encode_varint(value)]
        /\ UNCHANGED <<utxo_set, height, current_chain, new_chain, overflow_checks>>
        /\ UNCHANGED <<txVars, scriptVars, syncVars, poolVars>>

NextVarint == EncodeVarint

SpecVarint == InitVarint /\ [][NextVarint]_vars

----------------------------------------------------------------------------
(* Properties of the signing hash, over SpecSighash *)

\* The last call was calculate_transaction_sighash and it returned a digest
SighashReturnedOk ==
    last.op = "calculate_transaction_sighash" /\ last.ret.kind = "Ok"

\* t with its input j (counted from 1) replaced
WithInput(t, j, input) == [t EXCEPT !.inputs[j] = input]

\* The position after n inputs that start at position p of a preimage
RECURSIVE SkipInputs(_, _, _)
SkipInputs(bytes, p, n) ==
    IF n = 0 THEN p
    ELSE SkipInputs(bytes, p + 36 + 1 + bytes[p + 36] + 4, n - 1)

\* The bytes of a preimage between the output count and the lock time
OutputsOfPreimage(bytes, nin) ==
    SubSeq(bytes, SkipInputs(bytes, 6, nin) + 1, Len(bytes) - 8)

\* C17: without ANYONECANPAY (types ALL, NONE, SINGLE) every input is in the
\* preimage in full, so the digest changes when any input changes; with
\* ANYONECANPAY the inputs other than the signed one are zeroed, so the
\* digest does not change with them
C17_OtherInputsZeroedOnlyWithAnyoneCanPay ==
    SighashReturnedOk
    => \A j \in 1..Len(tx.inputs), alt \in AltSigInputs :
          (j - 1 # last.input_index /\ alt # tx.inputs[j])
          => LET changed == calculate_transaction_sighash(
                                WithInput(tx, j, alt), last.input_index,
                                last.prevouts, last.sighash_type)
             IN  IF last.sighash_type = SighashAnyoneCanPay
                 THEN changed = last.ret
                 ELSE changed # last.ret

\* C18: the outputs in the preimage are all the outputs in order for ALL,
\* none for NONE, and for SINGLE the output at the signing input's index, or
\* none when the transaction has no output there
C18_OutputsFollowBaseType ==
    (SighashReturnedOk
     /\ last.sighash_type \in {SighashAll, SighashNone, SighashSingle})
    => OutputsOfPreimage(last.ret.value.digest_of, Len(tx.inputs))
       = CASE last.sighash_type = SighashAll ->
                Concat([i \in 1..Len(tx.outputs) |-> SighashOutput(tx.outputs[i])])
           [] last.sighash_type = SighashNone -> <<>>
           [] last.sighash_type = SighashSingle ->
                IF last.input_index < Len(tx.outputs)
                THEN SighashOutput(tx.outputs[last.input_index + 1])
                ELSE <<>>

\* A SINGLE digest was computed for the second input of a transaction with
\* two different outputs
C18_Witness ==
    /\ SighashReturnedOk
    /\ last.sighash_type = SighashSingle
    /\ last.input_index = 1
    /\ Len(tx.outputs) = 2
    /\ tx.outputs[1] # tx.outputs[2]

\* C19: a type byte that parses keeps ANYONECANPAY apart from the base type:
\* b with 0x80 set and b without it parse to different types, and the four
\* type bytes the preimage ends with are b, little endian
C19_AnyoneCanPayKept ==
    (last.op = "from_byte" /\ last.ret.kind = "Ok")
    => /\ last.byte >= 128 => from_byte(last.byte - 128) # last.ret
       /\ SighashTypeBytes(last.ret.value) = LEBytes(last.byte, 4)

\* C20: calculate_transaction_sighash returns InvalidInputIndex when the
\* index is not below the number of inputs, else InvalidPrevoutsCount when
\* the prevouts are not as many as the inputs, else a 32-byte digest;
\* from_byte returns InvalidSighashType for every byte but the six types
C20_SighashErrors ==
    /\ last.op = "calculate_transaction_sighash"
       => IF last.input_index >= Len(tx.inputs)
          THEN last.ret = Err("InvalidInputIndex")
          ELSE IF Len(last.prevouts) # Len(tx.inputs)
          THEN last.ret = Err("InvalidPrevoutsCount")
          ELSE last.ret.kind = "Ok" /\ last.ret.value.len = 32
    /\ last.op = "from_byte"
       => (last.byte \notin {1, 2, 3, 129, 130, 131}
           <=> last.ret = Err("InvalidSighashType"))

\* The call had both an index beyond the inputs and too few prevouts
C20_Witness ==
    /\ last.op = "calculate_transaction_sighash"
    /\ Len(tx.inputs) = 2
    /\ last.input_index = 2
    /\ Len(last.prevouts) = 1
    /\ last.ret = Err("InvalidInputIndex")

----------------------------------------------------------------------------
(* src/src/script.rs: the script virtual machine.  A stack is a sequence   *)
(* of byte strings, bottom first: stack[0] of the source is stack[1] here  *)
(* and the top is the last element.  A call that works on "&mut stack"     *)
(* gives back the stack it leaves together with what it returns.           *)

MAX_SCRIPT_SIZE == 10000

MAX_STACK_SIZE == 1000

MAX_SCRIPT_OPS == 201

Top(st) == st[Len(st)]

\* The stack without its n top items
Pop(st, n) == SubSeq(st, 1, Len(st) - n)

\* The item n places below the top (0 is the top)
FromTop(st, n) == st[Len(st) - n]

\* The stack without the item at position k
Remove(st, k) == SubSeq(st, 1, k - 1) \o SubSeq(st, k + 1, Len(st))

\* !item.is_empty() && item[0] != 0
IsTrue(item) == item # <<>> /\ item[1] # 0

\* stack.len() == 1 && !stack[0].is_empty() && stack[0][0] != 0
FinalStackCheck(st) == Len(st) = 1 /\ IsTrue(st[1])

\* A digest of n bytes.  The bytes stand for those of the hash function:
\* they are fixed by the item and the function, and nothing here reads more
\* of them than their number
DigestBytes(n, item) ==
    [i \in 1..n |-> (n + i + Len(item) + SumSeq(item)) % 256]

\* PublicKey::from_slice accepts only encodings of 33 or 65 bytes, and no
\* item of the stacks used here is that long: the signature never verifies
verify_signature(pubkey_bytes, signature_bytes, sighash) == FALSE

Executed(result, st) == [ret |-> Ok(result), stack |-> st]

execute_opcode(opcode, st) ==
    LET n == Len(st)
    IN  CASE opcode = 0 -> Executed(TRUE, Append(st, <<>>))
          [] opcode \in 81..96 -> Executed(TRUE, Append(st, <<opcode - 80>>))
          [] opcode = 118 ->     \* OP_DUP
                IF n >= 1 THEN Executed(TRUE, Append(st, Top(st)))
                ELSE Executed(FALSE, st)
          [] opcode = 169 ->     \* OP_HASH160
                IF n >= 1
                THEN Executed(TRUE, Append(Pop(st, 1), DigestBytes(20, Top(st))))
                ELSE Executed(FALSE, st)
          [] opcode = 170 ->     \* OP_HASH256
                IF n >= 1
                THEN Executed(TRUE, Append(Pop(st, 1), DigestBytes(32, Top(st))))
                ELSE Executed(FALSE, st)
          [] opcode = 135 ->     \* OP_EQUAL
                IF n < 2 THEN Executed(FALSE, st)
                ELSE Executed(TRUE, Append(Pop(st, 2),
                        IF Top(st) = FromTop(st, 1) THEN <<1>> ELSE <<0>>))
          [] opcode = 136 ->     \* OP_EQUALVERIFY
                IF n < 2 THEN Executed(FALSE, st)
                ELSE Executed(Top(st) = FromTop(st, 1), Pop(st, 2))
          [] opcode = 172 ->     \* OP_CHECKSIG
                IF n < 2 THEN Executed(FALSE, st)
                ELSE Executed(TRUE, Append(Pop(st, 2),
                        IF verify_signature(Top(st), FromTop(st, 1), ZeroHash)
                        THEN <<1>> ELSE <<0>>))
          [] opcode = 173 ->     \* OP_CHECKSIGVERIFY
                IF n < 2 THEN Executed(FALSE, st)
                ELSE Executed(verify_signature(Top(st), FromTop(st, 1), ZeroHash),
                              Pop(st, 2))
          [] opcode = 106 -> Executed(FALSE, st)     \* OP_RETURN
          [] opcode = 105 ->     \* OP_VERIFY
                IF n >= 1 THEN Executed(IsTrue(Top(st)), Pop(st, 1))
                ELSE Executed(FALSE, st)
          [] opcode = 115 ->     \* OP_IFDUP
                IF n >= 1
                THEN Executed(TRUE, IF IsTrue(Top(st)) THEN Append(st, Top(st)) ELSE st)
                ELSE Executed(FALSE, st)
          [] opcode = 116 -> Executed(TRUE, Append(st, <<n % 256>>))   \* OP_DEPTH
          [] opcode = 117 ->     \* OP_DROP
                IF n >= 1 THEN Executed(TRUE, Pop(st, 1)) ELSE Executed(FALSE, st)
          [] opcode = 119 ->     \* OP_NIP
                IF n >= 2 THEN Executed(TRUE, Append(Pop(st, 2), Top(st)))
                ELSE Executed(FALSE, st)
          [] opcode = 120 ->     \* OP_OVER
                IF n >= 2 THEN Executed(TRUE, Append(st, FromTop(st, 1)))
                ELSE Executed(FALSE, st)
          [] opcode = 121 ->     \* OP_PICK
                IF n = 0 THEN Executed(FALSE, st)
                ELSE IF Top(st) = <<>> THEN Executed(FALSE, Pop(st, 1))
                ELSE IF Top(st)[1] < n - 1
                THEN Executed(TRUE, Append(Pop(st, 1), FromTop(Pop(st, 1), Top(st)[1])))
                ELSE Executed(FALSE, Pop(st, 1))
          [] opcode = 122 ->     \* OP_ROLL
                IF n = 0 THEN Executed(FALSE, st)
                ELSE IF Top(st) = <<>> THEN Executed(FALSE, Pop(st, 1))
                ELSE IF Top(st)[1] < n - 1
                THEN Executed(TRUE, Append(Remove(Pop(st, 1), n - 1 - Top(st)[1]),
                                           FromTop(Pop(st, 1), Top(st)[1])))
                ELSE Executed(FALSE, Pop(st, 1))
          [] opcode = 123 ->     \* OP_ROT
                IF n >= 3
                THEN Executed(TRUE, Pop(st, 3) \o
                        <<FromTop(st, 1), Top(st), FromTop(st, 2)>>)
                ELSE Executed(FALSE, st)
          [] opcode = 124 ->     \* OP_SWAP
                IF n >= 2
                THEN Executed(TRUE, Pop(st, 2) \o <<Top(st), FromTop(st, 1)>>)
                ELSE Executed(FALSE, st)
          [] opcode = 125 ->     \* OP_TUCK
                IF n >= 2
                THEN Executed(TRUE, Pop(st, 2) \o
                        <<Top(st), FromTop(st, 1), Top(st)>>)
                ELSE Executed(FALSE, st)
          [] opcode = 109 ->     \* OP_2DROP
                IF n >= 2 THEN Executed(TRUE, Pop(st, 2)) ELSE Executed(FALSE, st)
          [] opcode = 110 ->     \* OP_2DUP
                IF n >= 2
                THEN Executed(TRUE, st \o <<FromTop(st, 1), Top(st)>>)
                ELSE Executed(FALSE, st)
          [] opcode = 111 ->     \* OP_3DUP
                IF n >= 3
                THEN Executed(TRUE, st \o
                        <<FromTop(st, 2), FromTop(st, 1), Top(st)>>)
                ELSE Executed(FALSE, st)
          [] opcode = 112 ->     \* OP_2OVER
                IF n >= 4
                THEN Executed(TRUE, st \o <<FromTop(st, 3), FromTop(st, 2)>>)
                ELSE Executed(FALSE, st)
          [] opcode = 113 ->     \* OP_2ROT
                IF n >= 6
                THEN Executed(TRUE, Pop(st, 6) \o
                        <<FromTop(st, 3), FromTop(st, 2), FromTop(st, 1), Top(st),
                          FromTop(st, 4), FromTop(st, 5)>>)
                ELSE Executed(FALSE, st)
          [] opcode = 114 ->     \* OP_2SWAP
                IF n >= 4
                THEN Executed(TRUE, Pop(st, 4) \o
                        <<FromTop(st, 1), Top(st), FromTop(st, 3), FromTop(st, 2)>>)
                ELSE Executed(FALSE, st)
          [] opcode = 130 ->     \* OP_SIZE
                IF n >= 1 THEN Executed(TRUE, Append(st, <<Len(Top(st)) % 256>>))
                ELSE Executed(FALSE, st)
          [] OTHER -> Executed(FALSE, st)

\* F applied to the value of e, with e evaluated once
Bind(e, F(_)) == CHOOSE y \in {F(x) : x \in {e}} : TRUE

\* The state of the loop of eval_script between two opcodes: the value
\* returned, once the loop has returned, the operations counted and the stack
Running(op_count, st) ==
    [returned |-> FALSE, op_count |-> op_count, stack |-> st]

Returned(ret, st) == [returned |-> TRUE, ret |-> ret, stack |-> st]

\* A variant of the turn that goes on to the next opcode when the opcode
\* returned false
EvalStepKeepsRunning(opcode, s) ==
    IF s.op_count + 1 > MAX_SCRIPT_OPS
    THEN Returned(Err("ScriptExecution: Operation limit exceeded"), s.stack)
    ELSE IF Len(s.stack) > MAX_STACK_SIZE
    THEN Returned(Err("ScriptExecution: Stack overflow"), s.stack)
    ELSE Bind(execute_opcode(opcode, s.stack), LAMBDA r :
             IF r.ret.kind # "Ok" THEN Returned(r.ret, r.stack)
             ELSE Running(s.op_count + 1, r.stack))

\* One turn of the loop of eval_script
EvalStep(opcode, s) ==
    IF s.op_count + 1 > MAX_SCRIPT_OPS
    THEN Returned(Err("ScriptExecution: Operation limit exceeded"), s.stack)
    ELSE IF Len(s.stack) > MAX_STACK_SIZE
    THEN Returned(Err("ScriptExecution: Stack overflow"), s.stack)
    ELSE Bind(execute_opcode(opcode, s.stack), LAMBDA r :
             IF r.ret.kind # "Ok" THEN Returned(r.ret, r.stack)
             ELSE IF ~r.ret.value THEN Returned(Ok(FALSE), r.stack)
             ELSE Running(s.op_count + 1, r.stack))

\* The loop over the opcodes lo..hi of the script, in order, from state s;
\* nothing runs after the loop has returned.  The range is walked by halves
\* to keep the evaluation shallow
RECURSIVE EvalRange(_, _, _, _)
EvalRange(scr, lo, hi, s) ==
    IF s.returned \/ lo > hi THEN s
    ELSE IF lo = hi THEN EvalStep(scr[lo], s)
    ELSE Bind(EvalRange(scr, lo, (lo + hi) \div 2, s), LAMBDA t :
             EvalRange(scr, (lo + hi) \div 2 + 1, hi, t))

eval_script(scr, st, flags) ==
    Bind(EvalRange(scr, 1, Len(scr), Running(0, st)), LAMBDA s :
        IF s.returned THEN [ret |-> s.ret, stack |-> s.stack]
        ELSE [ret |-> Ok(FinalStackCheck(s.stack)), stack |-> s.stack])

execute_opcode_with_context(opcode, st, ctx) ==
    IF opcode \in {172, 173}
    THEN IF Len(st) < 2 THEN Executed(FALSE, st)
         ELSE LET sighash == calculate_transaction_sighash(
                                 ctx.tx, ctx.input_index, ctx.prevouts, SighashAll)
              IN  IF sighash.kind # "Ok"
                  THEN [ret |-> sighash, stack |-> Pop(st, 2)]
                  ELSE LET is_valid == verify_signature(Top(st), FromTop(st, 1),
                                                        sighash.value)
                       IN  IF opcode = 172
                           THEN Executed(TRUE, Append(Pop(st, 2),
                                    <<IF is_valid THEN 1 ELSE 0>>))
                           ELSE Executed(is_valid, Pop(st, 2))
    ELSE execute_opcode(opcode, st)

\* One turn of the loop of eval_script_with_context
EvalStepWithContext(opcode, s, ctx) ==
    IF s.op_count + 1 > MAX_SCRIPT_OPS
    THEN Returned(Err("ScriptExecution: Operation limit exceeded"), s.stack)
    ELSE IF Len(s.stack) > MAX_STACK_SIZE
    THEN Returned(Err("ScriptExecution: Stack overflow"), s.stack)
    ELSE Bind(execute_opcode_with_context(opcode, s.stack, ctx), LAMBDA r :
             IF r.ret.kind # "Ok" THEN Returned(r.ret, r.stack)
             ELSE IF ~r.ret.value THEN Returned(Ok(FALSE), r.stack)
             ELSE Running(s.op_count + 1, r.stack))

RECURSIVE EvalRangeWithContext(_, _, _, _, _)
EvalRangeWithContext(scr, lo, hi, s, ctx) ==
    IF s.returned \/ lo > hi THEN s
    ELSE IF lo = hi THEN EvalStepWithContext(scr[lo], s, ctx)
    ELSE Bind(EvalRangeWithContext(scr, lo, (lo + hi) \div 2, s, ctx), LAMBDA t :
             EvalRangeWithContext(scr, (lo + hi) \div 2 + 1, hi, t, ctx))

eval_script_with_context(scr, st, flags, ctx) ==
    Bind(EvalRangeWithContext(scr, 1, Len(scr), Running(0, st), ctx), LAMBDA s :
        IF s.returned THEN [ret |-> s.ret, stack |-> s.stack]
        ELSE [ret |-> Ok(FinalStackCheck(s.stack)), stack |-> s.stack])

\* Option<&ByteString>
None == [some |-> FALSE]

Some(w) == [some |-> TRUE, value |-> w]

\* script_sig, script_pubkey and the witness, if any, one after the other on
\* one stack; each must return true for the next to run
VerifyOnStack(st, script_sig, script_pubkey, witness, flags) ==
    Bind(eval_script(script_sig, st, flags), LAMBDA r1 :
        IF r1.ret.kind # "Ok" \/ ~r1.ret.value THEN r1
        ELSE
        Bind(eval_script(script_pubkey, r1.stack, flags), LAMBDA r2 :
            IF r2.ret.kind # "Ok" \/ ~r2.ret.value THEN r2
            ELSE IF witness.some
            THEN Bind(eval_script(witness.value, r2.stack, flags), LAMBDA r3 :
                     IF r3.ret.kind # "Ok" \/ ~r3.ret.value THEN r3
                     ELSE [ret |-> Ok(FinalStackCheck(r3.stack)), stack |-> r3.stack])
            ELSE [ret |-> Ok(FinalStackCheck(r2.stack)), stack |-> r2.stack]))

\* The evaluation from an empty stack
VerifyOnFreshStack(script_sig, script_pubkey, witness, flags) ==
    VerifyOnStack(<<>>, script_sig, script_pubkey, witness, flags)

verify_script_with_context(script_sig, script_pubkey, witness, flags, ctx) ==
    Bind(eval_script_with_context(script_sig, <<>>, flags, ctx), LAMBDA r1 :
        IF r1.ret.kind # "Ok" \/ ~r1.ret.value THEN r1
        ELSE
        Bind(eval_script_with_context(script_pubkey, r1.stack, flags, ctx), LAMBDA r2 :
            IF r2.ret.kind # "Ok" \/ ~r2.ret.value THEN r2
            ELSE IF witness.some
            THEN Bind(eval_script_with_context(witness.value, r2.stack, flags, ctx), LAMBDA r3 :
                     IF r3.ret.kind # "Ok" \/ ~r3.ret.value THEN r3
                     ELSE [ret |-> Ok(FinalStackCheck(r3.stack)), stack |-> r3.stack])
            ELSE [ret |-> Ok(FinalStackCheck(r2.stack)), stack |-> r2.stack]))

\* The values the 64-bit output of the hasher takes.  The hasher maps byte
\* strings of any length to a fixed number of values, so different strings
\* can have the same one
HasherOutputs == 3

\* DefaultHasher::finish over the bytes written: a fixed function of the
\* bytes onto the hasher's outputs, standing for SipHash
RECURSIVE HasherFrom(_, _, _)
HasherFrom(bytes, i, h) ==
    IF i > Len(bytes) THEN h
    ELSE HasherFrom(bytes, i + 1, (h * 31 + bytes[i] + 1) % HasherOutputs)

\* Vec<u8>::hash writes the length (usize) and then the bytes
HashedBytes(v) == LEBytes(Len(v), 8) \o v

compute_script_cache_key(script_sig, script_pubkey, witness, flags) ==
    HasherFrom(HashedBytes(script_sig) \o HashedBytes(script_pubkey)
               \o (IF witness.some THEN HashedBytes(witness.value) ELSE <<>>)
               \o LEBytes(flags, 4),
               1, 0)

\* LruCache::new(NonZeroUsize::new(10_000)) of SCRIPT_CACHE
SCRIPT_CACHE_CAPACITY == 10000

\* An LruCache is held as the list of its entries in the order the cache
\* keeps them, the most recent first.  count is 1 for the entry of a key;
\* a run of entries of scripts that are not among the ones verified here
\* is held as one item with key OtherKeys and the number of its entries
OtherKeys == -1

LruEntry(key, value) == [key |-> key, value |-> value, count |-> 1]

LruRun(n) == [key |-> OtherKeys, value |-> TRUE, count |-> n]

LruLen(cache) == SumSeq([i \in 1..Len(cache) |-> cache[i].count])

LruContains(cache, key) == \E i \in 1..Len(cache) : cache[i].key = key

\* LruCache::peek: the value of the key; the order of the entries stays
LruPeek(cache, key) ==
    cache[CHOOSE i \in 1..Len(cache) : cache[i].key = key].value

\* The n oldest entries leave the cache
RECURSIVE LruDropOldest(_, _)
LruDropOldest(cache, n) ==
    IF n <= 0 \/ cache = <<>> THEN cache
    ELSE IF cache[Len(cache)].count <= n
    THEN LruDropOldest(SubSeq(cache, 1, Len(cache) - 1),
                       n - cache[Len(cache)].count)
    ELSE [cache EXCEPT ![Len(cache)].count = @ - n]

\* Two runs next to each other are one run
RECURSIVE LruMerged(_)
LruMerged(cache) ==
    IF Len(cache) < 2 THEN cache
    ELSE IF cache[1].key = OtherKeys /\ cache[2].key = OtherKeys
    THEN LruMerged(<<LruRun(cache[1].count + cache[2].count)>>
                   \o SubSeq(cache, 3, Len(cache)))
    ELSE <<cache[1]>> \o LruMerged(SubSeq(cache, 2, Len(cache)))

\* LruCache::put: the entry becomes the most recent one; the oldest entry
\* leaves a cache that would grow over its capacity
LruPut(cache, key, value, capacity) ==
    LET pushed == <<LruEntry(key, value)>>
                  \o SelectSeq(cache, LAMBDA e : e.key # key)
    IN LruMerged(LruDropOldest(pushed, LruLen(pushed) - capacity))

\* n calls of put, each with a key of its own that is not in the cache
LruPutOthers(cache, n, capacity) ==
    LET pushed == <<LruRun(n)>> \o cache
    IN LruMerged(LruDropOldest(pushed, LruLen(pushed) - capacity))

\* verify_script against the cache: what it returns and the cache it
\* leaves.  With the production feature a hit returns the Boolean found by
\* peek and a miss puts an Ok result into the cache (an Err is not
\* cached).  Without the feature there is no cache
verify_script(script_sig, script_pubkey, witness, flags, cache, with_cache) ==
    Bind(compute_script_cache_key(script_sig, script_pubkey, witness, flags),
         LAMBDA key :
        IF with_cache /\ LruContains(cache, key)
        THEN [ret |-> Ok(LruPeek(cache, key)), cache |-> cache, hit |-> TRUE]
        ELSE
        Bind(VerifyOnFreshStack(script_sig, script_pubkey, witness, flags),
             LAMBDA r :
            IF ~with_cache \/ r.ret.kind # "Ok"
            THEN [ret |-> r.ret, cache |-> cache, hit |-> FALSE]
            ELSE [ret |-> r.ret,
                  cache |-> LruPut(cache, key, r.ret.value,
                                   SCRIPT_CACHE_CAPACITY),
                  hit |-> FALSE]))

----------------------------------------------------------------------------
(* The calls on the virtual machine.  SpecVm hands scripts and stacks up   *)
(* to the limits to eval_script and execute_opcode; SpecScript runs        *)
(* verify_script and verify_script_with_context on short scripts, with and *)
(* without the production feature.                                         *)

\* Longest script built from the opcodes one by one
MaxScriptLen == 2

\* Calls that work on one stack
MaxVmCalls == 2

\* OP_0, OP_1, OP_3DUP, OP_DROP, OP_DUP
VmOpcodes == {0, 81, 111, 117, 118}

\* The opcodes execute_opcode is called with: also OP_2, OP_VERIFY,
\* OP_RETURN, OP_DEPTH, OP_EQUAL and an unknown opcode
ExecOpcodes == VmOpcodes \cup {82, 105, 106, 116, 135, 255}

ShortScripts == SeqsUpTo(VmOpcodes, MaxScriptLen)

\* Scripts at the operation limit and just above the size limit
LongScripts ==
    {Repeat(81, MAX_SCRIPT_OPS),
     Repeat(81, MAX_SCRIPT_OPS + 1),
     <<81>> \o Repeat(118, MAX_SCRIPT_OPS),
     Repeat(81, MAX_SCRIPT_SIZE + 1),
     Repeat(118, MAX_SCRIPT_SIZE + 1)}

ShortStacks == {<<>>, << <<1>> >>, << <<>> >>, << <<1>>, <<1>>, <<1>> >>}

\* Stacks at the depth limit and one below it
DeepStacks == {Repeat(<<1>>, MAX_STACK_SIZE - 1), Repeat(<<1>>, MAX_STACK_SIZE)}

InitVm ==
    /\ PoolIdle
    /\ SyncIdle
    /\ \/ script \in ShortScripts /\ stack \in ShortStacks \cup DeepStacks
       \/ script \in LongScripts /\ stack \in {<<>>, << <<1>> >>}
    /\ vm_calls = 0
    /\ script_cache = <<>>
    /\ production = FALSE
    /\ last = [op |-> "none"]
    /\ tx = Transaction(<<>>, <<>>)
    /\ utxo_set = EmptyUtxoSet
    /\ height = 0
    /\ coinbase_outpoints = {}
    /\ tx_result = NoResult
    /\ inputs_result = NoResult
    /\ current_chain = <<>>
    /\ new_chain = <<>>
    /\ overflow_checks = TRUE

EvalScript ==
    \E r \in {eval_script(script, stack, 0)} :
        /\ vm_calls < MaxVmCalls
        /\ vm_calls' = vm_calls + 1
        /\ stack' = r.stack
        /\ last' = [op |-> "eval_script", old_stack |-> stack, ret |-> r.ret]
        /\ UNCHANGED <<script, script_cache, production>>
        /\ UNCHANGED <<utxo_set, height, current_chain, new_chain, overflow_checks>>
        /\ UNCHANGED <<txVars, syncVars, poolVars>>

ExecuteOpcode ==
    \E opcode \in ExecOpcodes :
        \E r \in {execute_opcode(opcode, stack)} :
            /\ vm_calls < MaxVmCalls
            /\ vm_calls' = vm_calls + 1
            /\ stack' = r.stack
            /\ last' = [op |-> "execute_opcode", opcode |-> opcode,
                        old_stack |-> stack, ret |-> r.ret]
            /\ UNCHANGED <<script, script_cache, production>>
            /\ UNCHANGED <<utxo_set, height, current_chain, new_chain, overflow_checks>>
            /\ UNCHANGED <<txVars, syncVars, poolVars>>

NextVm == EvalScript \/ ExecuteOpcode

SpecVm == InitVm /\ [][NextVm]_vars

\* OP_RETURN and a byte that is no opcode of the virtual machine
SentinelOpcodes == {106, 255}

\* The scripts of OP_1, OP_DUP and the sentinels that hold a sentinel
SentinelScripts ==
    {scr \in SeqsUpTo({81, 118} \cup SentinelOpcodes, MaxScriptLen) :
        \E i \in 1..Len(scr) : scr[i] \in SentinelOpcodes}

\* SpecSentinel runs the virtual machine on the scripts with a sentinel,
\* from an empty stack and from a stack that holds one true element
InitSentinel ==
    /\ PoolIdle
    /\ SyncIdle
    /\ script \in SentinelScripts
    /\ stack \in {<<>>, << <<1>> >>}
    /\ vm_calls = 0
    /\ script_cache = <<>>
    /\ production = FALSE
    /\ last = [op |-> "none"]
    /\ tx = Transaction(<<>>, <<>>)
    /\ utxo_set = EmptyUtxoSet
    /\ height = 0
    /\ coinbase_outpoints = {}
    /\ tx_result = NoResult
    /\ inputs_result = NoResult
    /\ current_chain = <<>>
    /\ new_chain = <<>>
    /\ overflow_checks = TRUE

NextSentinel == EvalScript \/ ExecuteOpcode

SpecSentinel == InitSentinel /\ [][NextSentinel]_vars

\* The scripts verify_script is called with
SigScripts == {<<>>, <<81>>}

\* OP_1, OP_DROP OP_1, OP_DUP OP_EQUAL, OP_1 OP_CHECKSIG
PubkeyScripts == {<<81>>, <<117, 81>>, <<118, 135>>, <<81, 172>>}

Witnesses == {None, Some(<<81>>)}

\* The transaction contexts verify_script_with_context is called with: a
\* one-input transaction, with an input index inside and outside it
Contexts ==
    {[tx |-> [version |-> 1,
              inputs |-> <<SigInput(FilledHash(1), 0, <<81>>, -1)>>,
              outputs |-> <<[value |-> 1, script_pubkey |-> <<81>>]>>,
              lock_time |-> 0],
      input_index |-> i,
      prevouts |-> <<[value |-> 1, script_pubkey |-> <<81>>]>>] : i \in {0, 1}}

InitScript ==
    /\ PoolIdle
    /\ SyncIdle
    /\ script \in {<<81>>, <<81, 81>>}
    /\ stack = <<>>
    /\ vm_calls = 0
    /\ script_cache = <<>>
    /\ production \in BOOLEAN
    /\ last = [op |-> "none"]
    /\ tx = Transaction(<<>>, <<>>)
    /\ utxo_set = EmptyUtxoSet
    /\ height = 0
    /\ coinbase_outpoints = {}
    /\ tx_result = NoResult
    /\ inputs_result = NoResult
    /\ current_chain = <<>>
    /\ new_chain = <<>>
    /\ overflow_checks = TRUE

VerifyScript ==
    \E script_sig \in SigScripts, script_pubkey \in PubkeyScripts,
       witness \in Witnesses :
        \E r \in {verify_script(script_sig, script_pubkey, witness, 0,
                                script_cache, production)} :
            /\ script_cache' = r.cache
            /\ last' = [op |-> "verify_script",
                        script_sig |-> script_sig,
                        script_pubkey |-> script_pubkey,
                        witness |-> witness,
                        flags |-> 0,
                        hit |-> r.hit,
                        ret |-> r.ret]
            /\ UNCHANGED <<script, stack, vm_calls, production>>
            /\ UNCHANGED <<utxo_set, height, current_chain, new_chain, overflow_checks>>
            /\ UNCHANGED <<txVars, syncVars, poolVars>>

VerifyScriptWithContext ==
    \E script_sig \in SigScripts, script_pubkey \in PubkeyScripts,
       witness \in Witnesses, ctx \in Contexts :
        LET r == verify_script_with_context(script_sig, script_pubkey,
                                            witness, 0, ctx)
        IN  /\ last' = [op |-> "verify_script_with_context",
                        script_sig |-> script_sig,
                        script_pubkey |-> script_pubkey,
                        witness |-> witness,
                        flags |-> 0,
                        ctx |-> ctx,
                        final_stack |-> r.stack,
                        ret |-> r.ret]
            /\ UNCHANGED scriptVars
            /\ UNCHANGED <<utxo_set, height, current_chain, new_chain, overflow_checks>>
            /\ UNCHANGED <<txVars, syncVars, poolVars>>

NextScript == EvalScript \/ VerifyScript \/ VerifyScriptWithContext

SpecScript == InitScript /\ [][NextScript]_vars

----------------------------------------------------------------------------
(* C11..C16: the results of the script functions, the limits and the cache *)

\* An opcode that only pushes a constant: OP_0 and OP_1..OP_16
IsPush(opcode) == opcode = 0 \/ opcode \in 81..96

\* The opcodes of a script that are not pushes
NonPushCount(scr) == Cardinality({i \in 1..Len(scr) : ~IsPush(scr[i])})

\* One script run on a stack with no test of the stack it leaves: the stack
\* left, and whether every opcode succeeded within the limits
RunScript(scr, st) ==
    Bind(EvalRange(scr, 1, Len(scr), Running(0, st)), LAMBDA s :
        [completed |-> ~s.returned, stack |-> s.stack])

\* verify_script as the scripts run one after the other on one stack, with
\* the test for one true element applied to the last stack only
RunOnSharedStack(script_sig, script_pubkey, witness) ==
    Bind(RunScript(script_sig, <<>>), LAMBDA r1 :
        IF ~r1.completed THEN FALSE
        ELSE
        Bind(RunScript(script_pubkey, r1.stack), LAMBDA r2 :
            IF ~r2.completed THEN FALSE
            ELSE IF witness.some
            THEN Bind(RunScript(witness.value, r2.stack), LAMBDA r3 :
                     r3.completed /\ FinalStackCheck(r3.stack))
            ELSE FinalStackCheck(r2.stack)))

\* What the last call of verify_script gives when evaluated with no cache
FreshEvaluation ==
    VerifyOnFreshStack(last.script_sig, last.script_pubkey, last.witness,
                       last.flags)

C12_ScriptsShareOneStack ==
    (last.op = "verify_script" /\ ~last.hit /\ last.ret.kind = "Ok")
        => last.ret.value = RunOnSharedStack(last.script_sig,
                                             last.script_pubkey, last.witness)

\* C13: only the opcodes that are not pushes count towards the operation
\* limit: eval_script does not fail with "Operation limit exceeded" on a
\* script with at most MAX_SCRIPT_OPS of them, however many pushes it has.
C13_PushesNotCounted ==
    (last.op = "eval_script" /\ NonPushCount(script) <= MAX_SCRIPT_OPS)
        => last.ret # Err("ScriptExecution: Operation limit exceeded")

\* C14: eval_script returns an error, never Ok(false) or Ok(true), for
\* every script of more than MAX_SCRIPT_SIZE bytes.
C14_LongScriptIsError ==
    (last.op = "eval_script" /\ Len(script) > MAX_SCRIPT_SIZE)
        => last.ret.kind = "Err"

\* C15: the stack never holds more than MAX_STACK_SIZE elements:
\* execute_opcode on a stack within the limit leaves a stack within the
\* limit, and eval_script returns an error rather than finish with a stack
\* above it.
C15_StackWithinLimit ==
    /\ (last.op = "execute_opcode" /\ Len(last.old_stack) <= MAX_STACK_SIZE)
          => Len(stack) <= MAX_STACK_SIZE
    /\ (last.op = "eval_script" /\ Len(last.old_stack) <= MAX_STACK_SIZE
        /\ last.ret.kind = "Ok")
          => Len(stack) <= MAX_STACK_SIZE

\* C16: verify_script returns, after any history of calls, what a fresh
\* evaluation of the same script_sig, script_pubkey, witness and flags
\* returns with the cache turned off; a hit never gives the result stored
\* for another tuple.
C16_CacheTransparent ==
    last.op = "verify_script" => last.ret = FreshEvaluation.ret

----------------------------------------------------------------------------
(* The work functions at the edges of the compact format.  SpecTarget      *)
(* hands expand_target compact values of every kind of exponent; SpecWork  *)
(* hands calculate_chain_work and should_reorganize chains of the          *)
(* repository's test block with the bits replaced: a zero target, target   *)
(* 1 (the largest work a header can have), the target of the tests and an  *)
(* exponent the function rejects.                                          *)

\* 0x1d00ffff, the genesis difficulty
GENESIS_BITS == 486604799

\* Longest chain handed to the work functions
MaxWorkChain == 2

\* 0x00000000 (target 0), 0x0300ffff (target 0xffff), 0x01010000 (target 1)
\* and 0x10000000 (shift 104: rejected)
WorkBits == {0, 50397183, 16842752, 268435456}

\* Exponents that shift right (0..2), not at all (3), left (4..15), too far
\* (16, 28, 29) and past the u8 range of the shift (35)
TargetExponents == {0, 1, 2, 3, 4, 15, 16, 28, 29, 35}

\* 0, 1, 0xff, 0x100, 0xffff, 0x10000 and 0xffffff
TargetMantissas == {0, 1, 255, 256, 65535, 65536, 16777215}

\* The compact values expand_target is called with
TargetBits ==
    {exponent * 16777216 + mantissa :
        exponent \in TargetExponents, mantissa \in TargetMantissas}

TestBlock(bits) ==
    [header |-> [version |-> 1,
                 prev_block_hash |-> ZeroHash,
                 merkle_root |-> ZeroHash,
                 timestamp |-> 1231006505,
                 bits |-> bits,
                 nonce |-> 0],
     transactions |-> <<[version |-> 1,
                         inputs |-> <<TransactionInput(CoinbasePrevout, 1)>>,
                         outputs |-> <<TransactionOutput(INITIAL_SUBSIDY, 1)>>,
                         lock_time |-> 0]>>]

WorkChains == SeqsUpTo({TestBlock(bits) : bits \in WorkBits}, MaxWorkChain)

InitWork ==
    /\ PoolIdle
    /\ SyncIdle
    /\ current_chain \in WorkChains
    /\ new_chain \in WorkChains
    /\ overflow_checks \in BOOLEAN
    /\ last = [op |-> "none"]
    /\ utxo_set = EmptyUtxoSet
    /\ height = 0
    /\ tx = Transaction(<<>>, <<>>)
    /\ coinbase_outpoints = {}
    /\ tx_result = NoResult
    /\ inputs_result = NoResult
    /\ ScriptIdle

ExpandTarget ==
    \E bits \in TargetBits :
        /\ last' = [op |-> "expand_target", bits |-> bits,
                    ret |-> expand_target(bits)]
        /\ UNCHANGED <<utxo_set, height, current_chain, new_chain, overflow_checks>>
        /\ UNCHANGED <<txVars, scriptVars, syncVars, poolVars>>

CalculateChainWork ==
    \E chain \in {new_chain, current_chain} :
        /\ last' = [op |-> "calculate_chain_work", chain |-> chain,
                    ret |-> calculate_chain_work(chain)]
        /\ UNCHANGED <<utxo_set, height, current_chain, new_chain, overflow_checks>>
        /\ UNCHANGED <<txVars, scriptVars, syncVars, poolVars>>

NextWork == CalculateChainWork \/ ShouldReorganize

SpecWork == InitWork /\ [][NextWork]_vars

InitTarget ==
    /\ PoolIdle
    /\ SyncIdle
    /\ current_chain = <<>>
    /\ new_chain = <<>>
    /\ overflow_checks \in BOOLEAN
    /\ last = [op |-> "none"]
    /\ utxo_set = EmptyUtxoSet
    /\ height = 0
    /\ tx = Transaction(<<>>, <<>>)
    /\ coinbase_outpoints = {}
    /\ tx_result = NoResult
    /\ inputs_result = NoResult
    /\ ScriptIdle

NextTarget == ExpandTarget

SpecTarget == InitTarget /\ [][NextTarget]_vars

----------------------------------------------------------------------------
(* C21, C28, C30: chain work, the choice between chains and the targets *)

\* The n next hexadecimal digits of floor(rem * 16^n / d), by long division
RECURSIVE LongDivZeros(_, _, _)
LongDivZeros(n, d, rem) ==
    IF n = 0 THEN <<>>
    ELSE <<(rem * 16) \div d>> \o LongDivZeros(n - 1, d, (rem * 16) % d)

\* floor(2^128 / (T + 1)) for a target T = m with 0 < m < 2^24
HeaderWork(target) == LongDivZeros(U128_DIGITS, target.m + 1, 1)

\* The targets of the headers of a chain
TargetsOf(chain) == [i \in 1..Len(chain) |-> expand_target(chain[i].header.bits)]

\* Every header of the chain has a target between 1 and 2^24 - 1
PositiveTargets(chain) ==
    \A i \in 1..Len(chain) :
        /\ TargetsOf(chain)[i].kind = "Ok"
        /\ TargetsOf(chain)[i].value.m > 0
        /\ TargetsOf(chain)[i].value.s = 0

\* The sum of HeaderWork over the blocks from i on, added to total; carry
\* counts the times the sum passed 2^128
RECURSIVE HeaderWorkSum(_, _, _)
HeaderWorkSum(chain, i, total) ==
    IF i > Len(chain) THEN total
    ELSE LET sum == U128Add(total.digits, HeaderWork(TargetsOf(chain)[i].value))
         IN  HeaderWorkSum(chain, i + 1,
                           [digits |-> sum.digits, carry |-> total.carry + sum.carry])

\* C21: the work of a header with target T is floor(2^128 / (T + 1)), and
\* calculate_chain_work returns the sum of it over the blocks of the chain
\* (for chains whose targets are positive and whose sum is a u128).
C21_ChainWorkIsSumOfHeaderWork ==
    LET sum == HeaderWorkSum(last.chain, 1, [digits |-> U128Zero, carry |-> 0])
    IN  (last.op = "calculate_chain_work" /\ PositiveTargets(last.chain)
         /\ sum.carry = 0)
            => last.ret = Ok(sum.digits)

\* calculate_chain_work returned a work for both chains
BothWorksOk(a, b) ==
    calculate_chain_work(a).kind = "Ok" /\ calculate_chain_work(b).kind = "Ok"

\* The work calculate_chain_work returns for a is above the one for b
MoreWork(a, b) == U128Greater(ChainWorkOf(a), ChainWorkOf(b))

C30_ExpandedTargetPositive ==
    (last.op = "expand_target" /\ last.bits < GENESIS_BITS /\ last.ret.kind = "Ok")
        => last.ret.value.m > 0

\* C29: a successful reorganize_chain reports as new_height the height
\* before the call, minus the number of blocks it disconnected, plus the
\* number of blocks it connected; a one-block chain replaced by a one-block
\* chain at height 1 gives 1.
C29_NewHeightCountsBlocks ==
    ReorganizeReturnedOk
    => last.ret.value.new_height =
           last.old_height - Len(last.ret.value.disconnected_blocks)
                           + Len(last.ret.value.connected_blocks)

----------------------------------------------------------------------------
(* C23, C27: the sentinels and the errors of eval_script *)

\* The opcodes execute_opcode has an arm for
ImplementedOpcodes ==
    {0} \cup (81..96) \cup (105..106) \cup (109..125) \cup {130, 135, 136}
    \cup (169..170) \cup (172..173)

\* OP_RETURN, or a byte execute_opcode has no arm for
IsSentinel(opcode) == opcode = 106 \/ opcode \notin ImplementedOpcodes

\* C23: eval_script never returns true for a script that holds OP_RETURN or
\* a byte the virtual machine does not implement, whatever the other
\* opcodes and the stack it starts from; execute_opcode returns false for
\* such an opcode and leaves the stack as it was.
C23_SentinelsFail ==
    /\ (last.op = "eval_script" /\ \E i \in 1..Len(script) : IsSentinel(script[i]))
          => last.ret # Ok(TRUE)
    /\ (last.op = "execute_opcode" /\ IsSentinel(last.opcode))
          => /\ last.ret = Ok(FALSE)
             /\ stack = last.old_stack

\* eval_script returned false on a script with a sentinel although the
\* stack it left holds exactly one true element
C23_Witness ==
    /\ last.op = "eval_script"
    /\ \E i \in 1..Len(script) : IsSentinel(script[i])
    /\ FinalStackCheck(stack)
    /\ last.ret = Ok(FALSE)

\* C27: on an empty stack eval_script returns an error for every script of
\* more than MAX_SCRIPT_OPS bytes, and Ok(true) or Ok(false), never an
\* error, for every script of at most MAX_SCRIPT_OPS bytes.
C27_ErrorIffLongerThanLimit ==
    (last.op = "eval_script" /\ last.old_stack = <<>>)
        => IF Len(script) > MAX_SCRIPT_OPS
           THEN last.ret.kind = "Err"
           ELSE last.ret.kind = "Ok"

----------------------------------------------------------------------------
(* C24: the four forms of a varint *)

\* The bytes of a u64 above this place are all zero
FitsIn(value, bytes) == \A i \in (bytes + 1)..8 : value[i] = 0

\* The marker byte followed by the low bytes of the value
Marked(marker, value, bytes) == <<marker>> \o [i \in 1..bytes |-> value[i]]

\* C24: encode_varint(x) is the single byte x for x < 0xFD, 0xFD and 2
\* little-endian bytes for x <= 0xFFFF, 0xFE and 4 little-endian bytes for
\* x <= 0xFFFFFFFF, 0xFF and 8 little-endian bytes otherwise; two values
\* that differ have encodings that differ.
C24_VarintForms ==
    last.op = "encode_varint"
    => /\ last.ret =
              IF FitsIn(last.value, 1) /\ last.value[1] < 253 THEN <<last.value[1]>>
              ELSE IF FitsIn(last.value, 2) THEN Marked(253, last.value, 2)
              ELSE IF FitsIn(last.value, 4) THEN Marked(254, last.value, 4)
              ELSE Marked(255, last.value, 8)
       /\ \A other \in VarintValues :
              other # last.value => encode_varint(other) # last.ret

\* encode_varint was given 2^32 and returned the nine-byte form
C24_Witness ==
    /\ last.op = "encode_varint"
    /\ last.value = <<0, 0, 0, 0, 1, 0, 0, 0>>
    /\ last.ret = <<255, 0, 0, 0, 0, 1, 0, 0, 0>>


----------------------------------------------------------------------------
(* Initial sync from the peers' UTXO commitments
   (utxo_commitments/initial_sync.rs). PeerConsensus, UtxoMerkleTree and
   SpamFilter are other modules of the crate; they follow section 4.J *)

MaxPeers == 3

MaxHeaders == 2

\* How many network prefixes the peers' addresses come from
PeerPrefixes == 3

PeerInfo(id, prefix) == [id |-> id, prefix |-> prefix]

\* The peers known at start: peer i of a list has id i
PeerLists ==
    UNION {{[i \in 1..n |-> PeerInfo(i, prefixes[i])] :
                prefixes \in [1..n -> 1..PeerPrefixes]} : n \in 0..MaxPeers}

ConsensusConfig(min_peers, quorum, safety_margin) ==
    [min_peers |-> min_peers, quorum |-> quorum, safety_margin |-> safety_margin]

SyncConfigs == {ConsensusConfig(2, 2, margin) : margin \in {0, 1}}

\* The local header chain: header i has nonce i
SyncHeader(n) ==
    [version |-> 1, prev_block_hash |-> ZeroHash, merkle_root |-> ZeroHash,
     timestamp |-> 1231006505, bits |-> GENESIS_BITS, nonce |-> n]

HeaderChains == {[i \in 1..k |-> SyncHeader(i)] : k \in 0..MaxHeaders}

\* The 80 bytes of a header, hashed twice
compute_block_hash(header) ==
    Sha256d(LEBytes(header.version, 4) \o header.prev_block_hash
            \o header.merkle_root \o LEBytes(header.timestamp, 4)
            \o LEBytes(header.bits, 4) \o LEBytes(header.nonce, 4))

UtxoCommitment(root, h, block_hash, utxo_count) ==
    [root |-> root, height |-> h, block_hash |-> block_hash,
     utxo_count |-> utxo_count]

\* Step 1 of 4.J: one peer for each network prefix, the first of the list
RECURSIVE DiversePeersFrom(_, _)
DiversePeersFrom(all_peers, i) ==
    IF i > Len(all_peers) THEN <<>>
    ELSE (IF \A j \in 1..(i - 1) : all_peers[j].prefix # all_peers[i].prefix
          THEN <<all_peers[i]>> ELSE <<>>)
         \o DiversePeersFrom(all_peers, i + 1)

discover_diverse_peers(all_peers) == DiversePeersFrom(all_peers, 1)

\* The hash of a block the local header chain does not hold
OtherBlockHash == compute_block_hash(SyncHeader(0))

\* What a peer asked for its commitment at the checkpoint may do: stay
\* silent, or answer with one of two roots for the block asked for or for
\* another block
PeerAnswers(checkpoint_height, checkpoint_hash) ==
    {[kind |-> "timeout"]}
    \cup {[kind |-> "commitment",
           commitment |-> UtxoCommitment(FilledHash(r), checkpoint_height, b, 0)] :
              r \in {1, 2}, b \in {checkpoint_hash, OtherBlockHash}}

\* request_utxo_sets resolves to the answers that came, in peer order
RECURSIVE AnswersFrom(_, _, _)
AnswersFrom(peers, replies, i) ==
    IF i > Len(peers) THEN <<>>
    ELSE (IF replies[i].kind = "commitment"
          THEN <<[peer |-> peers[i], commitment |-> replies[i].commitment]>>
          ELSE <<>>)
         \o AnswersFrom(peers, replies, i + 1)

peer_commitments_of(peers, replies) == AnswersFrom(peers, replies, 1)

\* Step 4 of 4.J: the answers are grouped by (root, block_hash); the
\* commitment of a strict majority of at least quorum answering peers wins
find_consensus(peer_commitments, config) ==
    LET total == Len(peer_commitments)
        agree(i) == {j \in 1..total :
                        /\ peer_commitments[j].commitment.root
                             = peer_commitments[i].commitment.root
                        /\ peer_commitments[j].commitment.block_hash
                             = peer_commitments[i].commitment.block_hash}
        winners == {i \in 1..total : 2 * Cardinality(agree(i)) > total}
    IN IF total < config.quorum \/ winners = {}
       THEN Err("InsufficientConsensus")
       ELSE LET first == CHOOSE i \in winners : \A j \in winners : i <= j
            IN Ok([commitment |-> peer_commitments[first].commitment,
                   agreement_count |-> Cardinality(agree(first)),
                   total_peers |-> total])

\* Step 5 of 4.J: the block the commitment names is the local header chain's
\* block at the commitment's height
verify_consensus_commitment(consensus, header_chain) ==
    IF consensus.commitment.height >= Len(header_chain)
    THEN Err("VerificationFailed")
    ELSE IF compute_block_hash(header_chain[consensus.commitment.height + 1])
              # consensus.commitment.block_hash
    THEN Err("VerificationFailed")
    ELSE Ok(TRUE)

\* What execute_initial_sync has done when it stops or awaits
SyncProgress(steps, asked, checkpoint_height, checkpoint_hash, result) ==
    [steps |-> steps, asked |-> asked, checkpoint_height |-> checkpoint_height,
     checkpoint_hash |-> checkpoint_hash, result |-> result]

\* A variant that asks whatever diverse peers there are
execute_initial_sync_asks_any_peers(all_peers, header_chain, config) ==
    LET diverse_peers == discover_diverse_peers(all_peers)
        tip == Len(header_chain) - 1
        checkpoint_height ==
            IF tip > config.safety_margin THEN tip - config.safety_margin ELSE 0
    IN IF header_chain = <<>>
       THEN SyncProgress(<<"discover_diverse_peers", "determine_checkpoint">>,
                         <<>>, 0, OtherBlockHash, Err("VerificationFailed"))
       ELSE SyncProgress(<<"discover_diverse_peers", "determine_checkpoint",
                           "request_utxo_sets">>,
                         diverse_peers, checkpoint_height,
                         compute_block_hash(header_chain[checkpoint_height + 1]),
                         NoResult)

\* execute_initial_sync up to its await: steps 1 to 3. peer_tips is empty, so
\* the checkpoint comes from the header chain
execute_initial_sync_to_request(all_peers, header_chain, config) ==
    LET diverse_peers == discover_diverse_peers(all_peers)
        tip == Len(header_chain) - 1
        checkpoint_height ==
            IF tip > config.safety_margin THEN tip - config.safety_margin ELSE 0
    IN IF Len(diverse_peers) < config.min_peers
       THEN SyncProgress(<<"discover_diverse_peers">>, <<>>, 0, OtherBlockHash,
                         Err("VerificationFailed"))
       ELSE IF header_chain = <<>>
       THEN SyncProgress(<<"discover_diverse_peers", "determine_checkpoint">>,
                         <<>>, 0, OtherBlockHash, Err("VerificationFailed"))
       ELSE IF checkpoint_height >= Len(header_chain)
       THEN SyncProgress(<<"discover_diverse_peers", "determine_checkpoint">>,
                         <<>>, 0, OtherBlockHash, Err("VerificationFailed"))
       ELSE SyncProgress(<<"discover_diverse_peers", "determine_checkpoint",
                           "request_utxo_sets">>,
                         diverse_peers, checkpoint_height,
                         compute_block_hash(header_chain[checkpoint_height + 1]),
                         NoResult)

\* execute_initial_sync after its await: steps 4 to 6
execute_initial_sync_from_answers(peer_commitments, header_chain, config) ==
    LET consensus == find_consensus(peer_commitments, config)
    IN IF consensus.kind # "Ok"
       THEN [steps |-> <<"find_consensus">>, result |-> consensus]
       ELSE LET verified == verify_consensus_commitment(consensus.value, header_chain)
            IN IF verified.kind # "Ok"
               THEN [steps |-> <<"find_consensus", "verify_consensus_commitment">>,
                     result |-> verified]
               ELSE [steps |-> <<"find_consensus", "verify_consensus_commitment">>,
                     result |-> Ok(consensus.value.commitment)]

InitSync ==
    /\ PoolIdle
    /\ ScriptIdle
    /\ tx = Transaction(<<>>, <<>>)
    /\ utxo_set = EmptyUtxoSet
    /\ height = 0
    /\ coinbase_outpoints = {}
    /\ tx_result = NoResult
    /\ inputs_result = NoResult
    /\ current_chain = <<>>
    /\ new_chain = <<>>
    /\ last = [op |-> "none"]
    /\ overflow_checks = TRUE
    /\ utxo_tree = [o \in {} |-> 0]
    /\ \E all_peers \in PeerLists, header_chain \in HeaderChains,
          config \in SyncConfigs :
          sync = [pc |-> "start", all_peers |-> all_peers,
                  header_chain |-> header_chain, config |-> config,
                  steps |-> <<>>, asked |-> <<>>, replies |-> <<>>,
                  checkpoint_height |-> 0, checkpoint_hash |-> OtherBlockHash,
                  result |-> NoResult]

\* The call runs to its first return or to the await on the peers' answers
ExecuteInitialSync ==
    /\ sync.pc = "start"
    /\ LET p == execute_initial_sync_to_request(sync.all_peers, sync.header_chain,
                                                sync.config)
       IN sync' = [sync EXCEPT
                     !.pc = IF p.result = NoResult THEN "request_utxo_sets"
                            ELSE "done",
                     !.steps = p.steps,
                     !.asked = p.asked,
                     !.replies = [i \in 1..Len(p.asked) |-> [kind |-> "pending"]],
                     !.checkpoint_height = p.checkpoint_height,
                     !.checkpoint_hash = p.checkpoint_hash,
                     !.result = p.result]
    /\ UNCHANGED <<txVars, scriptVars, utxo_tree, poolVars>>
    /\ UNCHANGED <<utxo_set, height, current_chain, new_chain, last, overflow_checks>>

\* The requests are settled one after the other, in the order of the peers:
\* the peer answers, or its request times out
PeerAnswer ==
    /\ sync.pc = "request_utxo_sets"
    /\ \E i \in 1..Len(sync.asked) :
          /\ sync.replies[i].kind = "pending"
          /\ \A j \in 1..(i - 1) : sync.replies[j].kind # "pending"
          /\ \E answer \in PeerAnswers(sync.checkpoint_height, sync.checkpoint_hash) :
                sync' = [sync EXCEPT !.replies[i] = answer]
    /\ UNCHANGED <<txVars, scriptVars, utxo_tree, poolVars>>
    /\ UNCHANGED <<utxo_set, height, current_chain, new_chain, last, overflow_checks>>

\* Every request is settled: the call goes on to its return
ExecuteInitialSyncResume ==
    /\ sync.pc = "request_utxo_sets"
    /\ \A i \in 1..Len(sync.asked) : sync.replies[i].kind # "pending"
    /\ LET p == execute_initial_sync_from_answers(
                    peer_commitments_of(sync.asked, sync.replies),
                    sync.header_chain, sync.config)
       IN sync' = [sync EXCEPT !.pc = "done",
                               !.steps = sync.steps \o p.steps,
                               !.result = p.result]
    /\ UNCHANGED <<txVars, scriptVars, utxo_tree, poolVars>>
    /\ UNCHANGED <<utxo_set, height, current_chain, new_chain, last, overflow_checks>>

NextSync == ExecuteInitialSync \/ PeerAnswer \/ ExecuteInitialSyncResume

SpecSync == InitSync /\ [][NextSync]_vars


----------------------------------------------------------------------------
(* Properties of the initial sync, checked under SpecSync *)

SyncSteps ==
    <<"discover_diverse_peers", "determine_checkpoint", "request_utxo_sets",
      "find_consensus", "verify_consensus_commitment">>

\* The peers execute_initial_sync had to choose from, and what they answered
DiverseOfCall == discover_diverse_peers(sync.all_peers)

ConsensusOfCall ==
    find_consensus(peer_commitments_of(sync.asked, sync.replies), sync.config)

\* A step of the call that did not succeed
StepFailed(step) ==
    CASE step = "discover_diverse_peers" ->
            Len(DiverseOfCall) < sync.config.min_peers
      [] step = "determine_checkpoint" -> sync.header_chain = <<>>
      [] step = "request_utxo_sets" -> FALSE
      [] step = "find_consensus" -> ConsensusOfCall.kind = "Err"
      [] step = "verify_consensus_commitment" ->
            verify_consensus_commitment(ConsensusOfCall.value,
                                        sync.header_chain).kind = "Err"

\* C25: execute_initial_sync performs its steps in the order discover diverse
\* peers, determine the checkpoint, request the commitments, find_consensus,
\* verify_consensus_commitment; it returns a commitment only when all of them
\* succeeded, and the commitment is the one of the consensus; when it returns
\* an error the last step performed is the one that failed and the steps
\* before it succeeded; no peer is asked for a commitment when fewer than
\* min_peers diverse peers exist or the header chain is empty
C25_SyncStepsInOrder ==
    /\ Len(sync.steps) <= Len(SyncSteps)
    /\ sync.steps = SubSeq(SyncSteps, 1, Len(sync.steps))
    /\ (Len(DiverseOfCall) < sync.config.min_peers \/ sync.header_chain = <<>>)
          => sync.asked = <<>>
    /\ sync.asked # <<>> => sync.asked = DiverseOfCall
    /\ sync.pc = "done" =>
          /\ sync.result.kind \in {"Ok", "Err"}
          /\ \A i \in 1..(Len(sync.steps) - 1) : ~StepFailed(sync.steps[i])
          /\ sync.result.kind = "Ok" =>
                /\ sync.steps = SyncSteps
                /\ ~StepFailed(sync.steps[Len(sync.steps)])
                /\ sync.result.value = ConsensusOfCall.value.commitment
          /\ sync.result.kind = "Err" =>
                StepFailed(sync.steps[Len(sync.steps)])

\* A commitment was returned, by a call only two of whose three peers agreed
C25_Witness ==
    /\ sync.pc = "done"
    /\ sync.result.kind = "Ok"
    /\ ConsensusOfCall.value.agreement_count < ConsensusOfCall.value.total_peers

\* The call failed at its last step: the peers agree on a block that is not
\* the header chain's
SyncFailedAtVerify ==
    /\ sync.pc = "done"
    /\ sync.result.kind = "Err"
    /\ sync.steps = SyncSteps


----------------------------------------------------------------------------
(* Forward sync from the checkpoint (initial_sync.rs 128-215) *)

MaxBlockTxs == 2

MaxTip == 2

OP_RETURN == 106

\* An entry of the tree; its script_pubkey is held in full
SyncUtxo(v, script_pubkey, h) ==
    [value |-> v, script_pubkey |-> script_pubkey, height |-> h]

\* The tree rebuilt at the checkpoint: what it holds
SyncTrees ==
    {[o \in D |-> SyncUtxo(5, <<81>>, 0)] : D \in {{}, {OutA}, {OutA, OutB}}}

\* Transactions of the blocks after the checkpoint: one input, one output
\* that pays to a script or is an OP_RETURN
SyncTxs ==
    {Transaction(<<TransactionInput(p, 0)>>,
                 <<[value |-> 1, script_pubkey |-> s]>>) :
        p \in {OutA, OutB}, s \in {<<81>>, <<OP_RETURN>>}}

SyncBlocks == SeqsUpTo(SyncTxs, MaxBlockTxs)

\* The block the peers serve for a height after the checkpoint
PeerBlockAt(h) ==
    <<Transaction(<<TransactionInput(IF h % 2 = 1 THEN OutA ELSE OutB, 0)>>,
                  <<[value |-> 1, script_pubkey |-> <<81>>]>>)>>

\* The root is a function of what the tree holds
root(tree) == [root_of |-> tree]

\* The spam filter of section 4.J: a transaction all of whose outputs are
\* OP_RETURN is left out; the fee floor is zero
IsSpam(t) ==
    /\ t.outputs # <<>>
    /\ \A i \in 1..Len(t.outputs) :
          /\ t.outputs[i].script_pubkey # <<>>
          /\ t.outputs[i].script_pubkey[1] = OP_RETURN

filter_block(block_transactions) ==
    LET filtered_txs == SelectSeq(block_transactions, LAMBDA t : ~IsSpam(t))
    IN [filtered_txs |-> filtered_txs,
        spam_summary |-> [filtered_count |->
                             Len(block_transactions) - Len(filtered_txs)]]

\* process_filtered_block: the filter runs, the tree is left as it is and
\* its root is returned
process_filtered_block(tree, block_height, block_transactions) ==
    LET filtered == filter_block(block_transactions)
    IN [utxo_tree |-> tree,
        ret |-> Ok(<<filtered.spam_summary, root(tree)>>)]

\* The loop of complete_sync_from_checkpoint over checkpoint_height + 1 ..=
\* current_tip: its body requests and applies nothing
RECURSIVE CompleteSyncFrom(_, _, _)
CompleteSyncFrom(tree, h, current_tip) ==
    IF h > current_tip THEN tree
    ELSE CompleteSyncFrom(tree, h + 1, current_tip)

complete_sync_from_checkpoint(tree, checkpoint_height, current_tip) ==
    [utxo_tree |-> CompleteSyncFrom(tree, checkpoint_height + 1, current_tip),
     ret |-> Ok(<<>>)]

InitForward ==
    /\ PoolIdle
    /\ ScriptIdle
    /\ tx = Transaction(<<>>, <<>>)
    /\ utxo_set = EmptyUtxoSet
    /\ height = 0
    /\ coinbase_outpoints = {}
    /\ tx_result = NoResult
    /\ inputs_result = NoResult
    /\ current_chain = <<>>
    /\ new_chain = <<>>
    /\ last = [op |-> "none"]
    /\ overflow_checks = TRUE
    /\ sync = [pc |-> "idle"]
    /\ utxo_tree \in SyncTrees

ProcessFilteredBlock ==
    /\ \E block_height \in 1..MaxTip, block_transactions \in SyncBlocks :
          LET r == process_filtered_block(utxo_tree, block_height,
                                          block_transactions)
          IN /\ utxo_tree' = r.utxo_tree
             /\ last' = [op |-> "process_filtered_block",
                         block_height |-> block_height,
                         block_transactions |-> block_transactions,
                         ret |-> r.ret]
    /\ UNCHANGED <<txVars, scriptVars, sync, poolVars>>
    /\ UNCHANGED <<utxo_set, height, current_chain, new_chain, overflow_checks>>

CompleteSyncFromCheckpoint ==
    /\ \E checkpoint_height \in 0..MaxTip, current_tip \in 0..MaxTip :
          LET r == complete_sync_from_checkpoint(utxo_tree, checkpoint_height,
                                                 current_tip)
          IN /\ utxo_tree' = r.utxo_tree
             /\ last' = [op |-> "complete_sync_from_checkpoint",
                         checkpoint_height |-> checkpoint_height,
                         current_tip |-> current_tip,
                         ret |-> r.ret]
    /\ UNCHANGED <<txVars, scriptVars, sync, poolVars>>
    /\ UNCHANGED <<utxo_set, height, current_chain, new_chain, overflow_checks>>

NextForward == ProcessFilteredBlock \/ CompleteSyncFromCheckpoint

SpecForward == InitForward /\ [][NextForward]_vars

----------------------------------------------------------------------------
(* Properties of forward sync, checked under SpecForward *)

\* The tree shows the transactions applied: what they spend is gone and
\* what they pay is there
TreeShowsApplied(tree, txs) ==
    \A i \in 1..Len(txs) :
       /\ \A k \in 1..Len(txs[i].inputs) :
             txs[i].inputs[k].prevout \notin DOMAIN tree
       /\ \A k \in 1..Len(txs[i].outputs) :
             \E o \in DOMAIN tree :
                /\ tree[o].value = txs[i].outputs[k].value
                /\ tree[o].script_pubkey = txs[i].outputs[k].script_pubkey

\* C26: after process_filtered_block for a block the tree no longer holds
\* the outpoints the block's retained transactions spend, holds their new
\* outputs, and the root returned is the root of that tree; after
\* complete_sync_from_checkpoint the same holds for the retained
\* transactions of every block at the heights checkpoint + 1 ..= tip
C26_ForwardSyncAppliesBlocks ==
    /\ last.op = "process_filtered_block" =>
          /\ TreeShowsApplied(utxo_tree,
                              filter_block(last.block_transactions).filtered_txs)
          /\ last.ret.value[2] = root(utxo_tree)
    /\ last.op = "complete_sync_from_checkpoint" =>
          \A h \in (last.checkpoint_height + 1)..last.current_tip :
             TreeShowsApplied(utxo_tree, filter_block(PeerBlockAt(h)).filtered_txs)


----------------------------------------------------------------------------
(* The script cache of a production build when it fills up.  SpecCache
   verifies the scripts of SpecScript and, in between, runs of further
   scripts that leave one place in the cache.  last keeps, next to the call,
   the keys in the order of their last use, insertion or hit (a history) *)

InitCache ==
    /\ PoolIdle
    /\ SyncIdle
    /\ script = <<81>>
    /\ stack = <<>>
    /\ vm_calls = 0
    /\ script_cache = <<>>
    /\ production = TRUE
    /\ last = [op |-> "none", use_order |-> <<>>]
    /\ tx = Transaction(<<>>, <<>>)
    /\ utxo_set = EmptyUtxoSet
    /\ height = 0
    /\ coinbase_outpoints = {}
    /\ tx_result = NoResult
    /\ inputs_result = NoResult
    /\ current_chain = <<>>
    /\ new_chain = <<>>
    /\ overflow_checks = TRUE

\* verify_script for one of the scripts of SpecScript
VerifyScriptProduction ==
    \E script_sig \in SigScripts, script_pubkey \in PubkeyScripts :
        \E r \in {verify_script(script_sig, script_pubkey, None, 0,
                                script_cache, production)} :
            LET key == compute_script_cache_key(script_sig, script_pubkey,
                                                None, 0)
            IN  /\ script_cache' = r.cache
                /\ last' = [op |-> "verify_script",
                            script_sig |-> script_sig,
                            script_pubkey |-> script_pubkey,
                            key |-> key,
                            hit |-> r.hit,
                            ret |-> r.ret,
                            cache_before |-> script_cache,
                            use_before |-> last.use_order,
                            use_order |->
                               IF r.ret.kind = "Ok"
                               THEN LruPut(last.use_order, key, TRUE,
                                           SCRIPT_CACHE_CAPACITY)
                               ELSE last.use_order]
                /\ UNCHANGED <<script, stack, vm_calls, production>>
                /\ UNCHANGED <<utxo_set, height, current_chain, new_chain, overflow_checks>>
                /\ UNCHANGED <<txVars, syncVars, poolVars>>

\* verify_script for SCRIPT_CACHE_CAPACITY - 1 further scripts, one after
\* the other: each has a key of its own, misses the cache and returns Ok
VerifyOtherScripts ==
    /\ script_cache' = LruPutOthers(script_cache, SCRIPT_CACHE_CAPACITY - 1,
                                    SCRIPT_CACHE_CAPACITY)
    /\ last' = [op |-> "verify_other_scripts",
                cache_before |-> script_cache,
                use_before |-> last.use_order,
                use_order |-> LruPutOthers(last.use_order,
                                           SCRIPT_CACHE_CAPACITY - 1,
                                           SCRIPT_CACHE_CAPACITY)]
    /\ UNCHANGED <<script, stack, vm_calls, production>>
    /\ UNCHANGED <<utxo_set, height, current_chain, new_chain, overflow_checks>>
    /\ UNCHANGED <<txVars, syncVars, poolVars>>

NextCache == VerifyScriptProduction \/ VerifyOtherScripts

SpecCache == InitCache /\ [][NextCache]_vars

----------------------------------------------------------------------------
(* Properties of the script cache, checked under SpecCache *)

LruKeys(cache) == {cache[i].key : i \in 1..Len(cache)} \ {OtherKeys}

\* How many entries of further scripts a list holds
OtherEntries(cache) ==
    SumSeq([i \in 1..Len(cache) |->
               IF cache[i].key = OtherKeys THEN cache[i].count ELSE 0])

\* What was used after the last use of key
UsedAfter(order, key) ==
    SubSeq(order, 1, (CHOOSE i \in 1..Len(order) : order[i].key = key) - 1)

\* No entry of the cache has its last use before the last use of key
OldestUse(cache, order, key) ==
    /\ LruKeys(cache) \ {key} \subseteq LruKeys(UsedAfter(order, key))
    /\ OtherEntries(cache) <= OtherEntries(UsedAfter(order, key))

\* An entry of a further script has its last use before the last use of
\* every key of the cache
OldestUseIsOther(cache, order) ==
    \A key \in LruKeys(cache) :
       OtherEntries(UsedAfter(order, key)) < OtherEntries(cache)

\* C22: the script cache never holds more than 10,000 entries, and when a
\* full cache receives a new key the entry that leaves is the one whose
\* last use, insertion or hit, is the oldest
C22_CacheBoundedAndLru ==
    /\ LruLen(script_cache) <= SCRIPT_CACHE_CAPACITY
    /\ (/\ last.op = "verify_script"
        /\ ~last.hit
        /\ last.ret.kind = "Ok"
        /\ LruLen(last.cache_before) = SCRIPT_CACHE_CAPACITY)
       => /\ LruLen(script_cache) = SCRIPT_CACHE_CAPACITY
          /\ Cardinality(LruKeys(last.cache_before) \ LruKeys(script_cache)) <= 1
          /\ \A key \in LruKeys(last.cache_before) \ LruKeys(script_cache) :
                OldestUse(last.cache_before, last.use_before, key)
          /\ LruKeys(last.cache_before) \subseteq LruKeys(script_cache)
                => OldestUseIsOther(last.cache_before, last.use_before)

\* The size bound of C22 alone
CacheBounded == LruLen(script_cache) <= SCRIPT_CACHE_CAPACITY


----------------------------------------------------------------------------
(* calculate_tx_id on chains whose coinbase transactions differ in their
   version or in what they pay (reorganization.rs 79-102, 158-166) *)

MaxIdChain == 3

\* A coinbase transaction with one output of the given value
IdCoinbase(version, v) ==
    [version |-> version,
     inputs |-> <<TransactionInput(CoinbasePrevout, 1)>>,
     outputs |-> <<TransactionOutput(v, 1)>>,
     lock_time |-> 0]

IdBlock(version, v, n) ==
    [header |-> [version |-> 1, prev_block_hash |-> ZeroHash,
                 merkle_root |-> ZeroHash, timestamp |-> 1231006505,
                 bits |-> GENESIS_BITS, nonce |-> n],
     transactions |-> <<IdCoinbase(version, v)>>]

\* The transactions of the blocks of a chain
ChainTransactions(chain) ==
    UNION {{chain[i].transactions[k] : k \in 1..Len(chain[i].transactions)} :
              i \in 1..Len(chain)}

InitTxId ==
    /\ PoolIdle
    /\ SyncIdle
    /\ ScriptIdle
    /\ current_chain = <<>>
    /\ new_chain = <<>>
    /\ utxo_set = EmptyUtxoSet
    /\ height = 0
    /\ overflow_checks = TRUE
    /\ last = [op |-> "none"]
    /\ tx = Transaction(<<>>, <<>>)
    /\ coinbase_outpoints = {}
    /\ tx_result = NoResult
    /\ inputs_result = NoResult

\* The next block is connected on top of the chain; its coinbase is not a
\* transaction of the chain
ConnectIdBlock ==
    \E version \in {1, 2}, v \in {1, 2} :
        LET block == IdBlock(version, v, Len(current_chain) + 1)
            r == connect_block(block, utxo_set, height + 1)
        IN  /\ Len(current_chain) < MaxIdChain
            /\ IdCoinbase(version, v) \notin ChainTransactions(current_chain)
            /\ r.value.result = Valid
            /\ last' = [op |-> "connect_block", block |-> block,
                        old_utxo_set |-> utxo_set, ret |-> r]
            /\ utxo_set' = r.value.utxo_set
            /\ height' = height + 1
            /\ current_chain' = Append(current_chain, block)
            /\ UNCHANGED <<new_chain, overflow_checks>>
            /\ UNCHANGED <<txVars, scriptVars, syncVars, poolVars>>

\* The tip is disconnected
DisconnectIdBlock ==
    LET block == current_chain[Len(current_chain)]
        r == disconnect_block(block, utxo_set, height)
    IN  /\ current_chain # <<>>
        /\ last' = [op |-> "disconnect_block", block |-> block,
                    old_utxo_set |-> utxo_set, ret |-> r]
        /\ utxo_set' = r.value
        /\ height' = height - 1
        /\ current_chain' = SubSeq(current_chain, 1, Len(current_chain) - 1)
        /\ UNCHANGED <<new_chain, overflow_checks>>
        /\ UNCHANGED <<txVars, scriptVars, syncVars, poolVars>>

NextTxId == ConnectIdBlock \/ DisconnectIdBlock

SpecTxId == InitTxId /\ [][NextTxId]_vars

\* An output of a transaction of the block at height h is in the set
OutputIsUnspent(us, output, h) ==
    \E o \in DOMAIN us : /\ us[o].value = output.value
                         /\ us[o].script_pubkey = output.script_pubkey
                         /\ us[o].height = h

\* C31: distinct transactions have distinct ids, so when disconnect_block
\* has removed the outpoints of the tip's transactions the outputs of the
\* transactions of the blocks below it (none of them is spent here) are
\* still in the set, as they were created
C31_TxIdsDistinctAndOthersUntouched ==
    /\ \A t1, t2 \in ChainTransactions(current_chain) :
          t1 # t2 => calculate_tx_id(t1) # calculate_tx_id(t2)
    /\ last.op = "disconnect_block" =>
          \A i \in 1..Len(current_chain) :
             \A k \in 1..Len(current_chain[i].transactions) :
                \A n \in 1..Len(current_chain[i].transactions[k].outputs) :
                   OutputIsUnspent(utxo_set,
                                   current_chain[i].transactions[k].outputs[n], i)

\* The second conjunct of C31 alone: what disconnect_block leaves
OthersUntouched ==
    last.op = "disconnect_block" =>
       \A i \in 1..Len(current_chain) :
          \A k \in 1..Len(current_chain[i].transactions) :
             \A n \in 1..Len(current_chain[i].transactions[k].outputs) :
                OutputIsUnspent(utxo_set,
                                current_chain[i].transactions[k].outputs[n], i)


----------------------------------------------------------------------------
(* The stack opcodes of execute_opcode (script.rs 563-789) on stacks whose
   items can be told apart *)

\* Deepest stack the opcodes are called on
MaxOpStack == 7

\* OP_2DROP .. OP_TUCK and OP_SIZE
StackOpcodes == 109..125 \cup {130}

\* The stacks <<1>>, <<2>>, .., <<k>>, bottom first, and the same with an
\* item on top that OP_PICK and OP_ROLL read as the index 0, as the index 2
\* or find empty
StackOpStacks ==
    LET counted(k) == [i \in 1..k |-> <<i>>]
    IN  {counted(k) : k \in 0..MaxOpStack}
        \cup {Append(counted(k), item) :
                 k \in 0..(MaxOpStack - 1), item \in {<<0>>, <<2>>, <<>>}}

InitStackOps ==
    /\ PoolIdle
    /\ SyncIdle
    /\ script = <<>>
    /\ stack \in StackOpStacks
    /\ vm_calls = 0
    /\ script_cache = <<>>
    /\ production = FALSE
    /\ last = [op |-> "none"]
    /\ tx = Transaction(<<>>, <<>>)
    /\ utxo_set = EmptyUtxoSet
    /\ height = 0
    /\ coinbase_outpoints = {}
    /\ tx_result = NoResult
    /\ inputs_result = NoResult
    /\ current_chain = <<>>
    /\ new_chain = <<>>
    /\ overflow_checks = TRUE

ExecuteStackOpcode ==
    \E opcode \in StackOpcodes :
        \E r \in {execute_opcode(opcode, stack)} :
            /\ vm_calls < MaxVmCalls
            /\ vm_calls' = vm_calls + 1
            /\ stack' = r.stack
            /\ last' = [op |-> "execute_opcode", opcode |-> opcode,
                        old_stack |-> stack, ret |-> r.ret]
            /\ UNCHANGED <<script, script_cache, production>>
            /\ UNCHANGED <<utxo_set, height, current_chain, new_chain, overflow_checks>>
            /\ UNCHANGED <<txVars, syncVars, poolVars>>

NextStackOps == ExecuteStackOpcode

SpecStackOps == InitStackOps /\ [][NextStackOps]_vars

----------------------------------------------------------------------------
(* Properties of the stack opcodes, checked under SpecStackOps *)

\* C32: OP_2ROT on a stack ending x1 x2 x3 x4 x5 x6 returns true and leaves
\* x3 x4 x5 x6 x1 x2 above the untouched rest; on a stack of fewer than 6
\* elements it returns false
C32_Op2RotReference ==
    (last.op = "execute_opcode" /\ last.opcode = 113) =>
       IF Len(last.old_stack) < 6
       THEN last.ret = Ok(FALSE)
       ELSE /\ last.ret = Ok(TRUE)
            /\ stack = Pop(last.old_stack, 6)
                       \o <<FromTop(last.old_stack, 3), FromTop(last.old_stack, 2),
                            FromTop(last.old_stack, 1), Top(last.old_stack),
                            FromTop(last.old_stack, 5), FromTop(last.old_stack, 4)>>

\* The elements an opcode needs on the stack
MinStackDepth(opcode) ==
    CASE opcode \in {115, 117, 118, 130} -> 1
      [] opcode \in {109, 110, 119, 120, 124, 125} -> 2
      [] opcode \in {111, 123} -> 3
      [] opcode \in {112, 114} -> 4
      [] opcode = 113 -> 6
      [] opcode \in {121, 122} -> 1
      [] OTHER -> 0

\* The stack holds too few elements for the opcode; for OP_PICK and OP_ROLL
\* also: the index on top is not below the number of elements under it
TooFewElements(opcode, st) ==
    \/ Len(st) < MinStackDepth(opcode)
    \/ /\ opcode \in {121, 122}
       /\ Top(st) # <<>>
       /\ Top(st)[1] >= Len(st) - 1

\* C35: when execute_opcode returns false on a stack that holds too few
\* elements for the opcode, the stack is as it was before the call
C35_FailedOpcodeKeepsStack ==
    (/\ last.op = "execute_opcode"
     /\ last.ret = Ok(FALSE)
     /\ TooFewElements(last.opcode, last.old_stack))
    => stack = last.old_stack


\* ---------------------------------------------------------------------
\* The thread-local stack pool (script.rs, production feature)
\* ---------------------------------------------------------------------

\* The most stacks return_pooled_stack lets the pool hold
STACK_POOL_LIMIT == 10

\* The longest stack the thread builds by hand before it returns it
MaxPoolStack == 2

\* Vec::clear: no element is left (the capacity is the allocator's matter)
clear(st) == <<>>

\* get_pooled_stack: the front stack of the pool, cleared, or a new one
get_pooled_stack(pool) ==
    IF pool # <<>>
    THEN [stack |-> clear(Head(pool)), pool |-> Tail(pool)]
    ELSE [stack |-> <<>>, pool |-> pool]

\* return_pooled_stack without the limit on the pool's size
return_pooled_stack_unbounded(pool, st) == Append(pool, clear(st))

\* return_pooled_stack: the stack is cleared, and pushed to the back of the
\* pool unless the pool is full (then it is dropped)
return_pooled_stack(pool, st) ==
    IF Len(pool) < STACK_POOL_LIMIT
    THEN Append(pool, clear(st))
    ELSE pool

\* The production path of verify_script: the cache is looked up, a miss
\* evaluates on a pooled stack, stores the result and returns the stack to
\* the pool; an Err of eval_script leaves the function at once, the stack
\* is dropped and nothing is stored
verify_script_production(script_sig, script_pubkey, witness, flags, cache, pool) ==
    Bind(compute_script_cache_key(script_sig, script_pubkey, witness, flags),
         LAMBDA key :
        IF LruContains(cache, key)
        THEN [ret |-> Ok(LruPeek(cache, key)), cache |-> cache,
              pool |-> pool, hit |-> TRUE, start |-> <<>>, end |-> <<>>]
        ELSE
        Bind(get_pooled_stack(pool), LAMBDA g :
        Bind(VerifyOnStack(g.stack, script_sig, script_pubkey, witness,
                           flags),
             LAMBDA r :
            IF r.ret.kind # "Ok"
            THEN [ret |-> r.ret, cache |-> cache, pool |-> g.pool,
                  hit |-> FALSE, start |-> g.stack, end |-> r.stack]
            ELSE [ret |-> r.ret,
                  cache |-> LruPut(cache, key, r.ret.value,
                                   SCRIPT_CACHE_CAPACITY),
                  pool |-> return_pooled_stack(g.pool, r.stack),
                  hit |-> FALSE, start |-> g.stack, end |-> r.stack])))

\* One thread in production mode: nothing is cached, the pool is empty and
\* the thread's own stack is empty
InitPool ==
    /\ PoolIdle
    /\ SyncIdle
    /\ script = <<81>>
    /\ stack = <<>>
    /\ vm_calls = 0
    /\ script_cache = <<>>
    /\ production = TRUE
    /\ last = [op |-> "none"]
    /\ tx = Transaction(<<>>, <<>>)
    /\ utxo_set = EmptyUtxoSet
    /\ height = 0
    /\ coinbase_outpoints = {}
    /\ tx_result = NoResult
    /\ inputs_result = NoResult
    /\ current_chain = <<>>
    /\ new_chain = <<>>
    /\ overflow_checks = TRUE

\* The thread takes a stack from the pool; the one it had is dropped
GetPooledStack ==
    \E g \in {get_pooled_stack(stack_pool)} :
        /\ stack' = g.stack
        /\ stack_pool' = g.pool
        /\ last' = [op |-> "get_pooled_stack", pool_before |-> stack_pool,
                    got |-> g.stack]
        /\ UNCHANGED <<script, vm_calls, script_cache, production>>
        /\ UNCHANGED <<calls, hash_cache>>
        /\ UNCHANGED <<utxo_set, height, current_chain, new_chain, overflow_checks>>
        /\ UNCHANGED <<txVars, syncVars>>

\* The thread runs a script on the stack it has
ExecuteOnPooledStack ==
    /\ Len(stack) < MaxPoolStack
    /\ \E scr \in {<<81>>, <<0>>} :
        \E r \in {eval_script(scr, stack, 0)} :
            /\ stack' = r.stack
            /\ last' = [op |-> "eval_script", ret |-> r.ret]
    /\ UNCHANGED <<script, vm_calls, script_cache, production>>
    /\ UNCHANGED <<utxo_set, height, current_chain, new_chain, overflow_checks>>
    /\ UNCHANGED <<txVars, syncVars, poolVars>>

\* The thread gives the stack it has to the pool and goes on with a new
\* Vec of its own
ReturnPooledStack ==
    /\ stack_pool' = return_pooled_stack(stack_pool, stack)
    /\ stack' = <<>>
    /\ last' = [op |-> "return_pooled_stack", pool_before |-> stack_pool,
                returned |-> stack]
    /\ UNCHANGED <<script, vm_calls, script_cache, production>>
    /\ UNCHANGED <<calls, hash_cache>>
    /\ UNCHANGED <<utxo_set, height, current_chain, new_chain, overflow_checks>>
    /\ UNCHANGED <<txVars, syncVars>>

\* verify_script in production mode for one of the scripts of SpecScript
VerifyScriptPooled ==
    \E script_sig \in SigScripts, script_pubkey \in PubkeyScripts :
        \E r \in {verify_script_production(script_sig, script_pubkey, None,
                                           0, script_cache, stack_pool)} :
            /\ script_cache' = r.cache
            /\ stack_pool' = r.pool
            /\ last' = [op |-> "verify_script", hit |-> r.hit,
                        pool_before |-> stack_pool,
                        start |-> r.start, end |-> r.end, ret |-> r.ret]
            /\ UNCHANGED <<script, stack, vm_calls, production>>
            /\ UNCHANGED <<calls, hash_cache>>
            /\ UNCHANGED <<utxo_set, height, current_chain, new_chain, overflow_checks>>
            /\ UNCHANGED <<txVars, syncVars>>

NextPool ==
    \/ GetPooledStack
    \/ ExecuteOnPooledStack
    \/ ReturnPooledStack
    \/ VerifyScriptPooled

SpecPool == InitPool /\ [][NextPool]_vars

\* C40: in production mode every verify_script that evaluates starts
\* script_sig on an empty stack, a stack taken from the thread-local pool is
\* empty whatever earlier executions left on it, and after any sequence of
\* get_pooled_stack and return_pooled_stack calls the pool holds at most 10
\* stacks
C40_PooledStackEmptyAndPoolBounded ==
    /\ Len(stack_pool) <= 10
    /\ \A i \in 1..Len(stack_pool) : stack_pool[i] = <<>>
    /\ last.op = "get_pooled_stack" => last.got = <<>>
    /\ (last.op = "verify_script" /\ ~last.hit) => last.start = <<>>

\* A stack with elements on it is returned to a pool that already holds 10
C40_Witness ==
    /\ last.op = "return_pooled_stack"
    /\ Len(last.pool_before) = 10
    /\ last.returned # <<>>
    /\ Len(stack_pool) = 10

\* A verify_script that evaluated on a stack taken from the pool and left
\* elements on it
C40_PooledEvaluation ==
    /\ last.op = "verify_script"
    /\ ~last.hit
    /\ last.pool_before # <<>>
    /\ last.end # <<>>


\* ---------------------------------------------------------------------
\* The hash cache of OP_HASH160 and OP_HASH256 (script.rs, production
\* feature)
\* ---------------------------------------------------------------------

\* LruCache::new(NonZeroUsize::new(5_000))
HASH_CACHE_CAPACITY == 5000

\* The items hashed here are <<1>> .. <<MaxHashItems>>
MaxHashItems == 2

HashItems == {<<i>> : i \in 1..MaxHashItems}

\* The stacks the hash opcodes are run on: empty, one item, an item on
\* top of another
HashStacks ==
    {<<>>} \cup {<<x>> : x \in HashItems}
           \cup {<<<<1>>, x>> : x \in HashItems}

\* Sha256::digest as the number of its preimage: the digests of two
\* preimages are equal only when the preimages are
RECURSIVE Sha256Digest(_)
Sha256Digest(data) ==
    IF data = <<>> THEN 0
    ELSE 257 * Sha256Digest(SubSeq(data, 1, Len(data) - 1))
         + data[Len(data)] + 1

\* A key made of the length of the input and the operation type only
compute_hash_cache_key_of_length(input, op_hash160) ==
    Sha256Digest(<<Len(input), IF op_hash160 THEN 169 ELSE 170>>)

\* compute_hash_cache_key: SHA256 of the input followed by the opcode byte
compute_hash_cache_key(input, op_hash160) ==
    Sha256Digest(Append(input, IF op_hash160 THEN 169 ELSE 170))

\* The arms of OP_HASH160 and OP_HASH256 in production mode: the popped
\* item's entry is served when it has the length of the opcode's digest;
\* otherwise the digest is computed, stored and pushed
execute_hash_opcode_production(opcode, st, cache) ==
    LET n == IF opcode = 169 THEN 20 ELSE 32
    IN  IF st = <<>>
        THEN [ret |-> Ok(FALSE), stack |-> st, cache |-> cache,
              hit |-> FALSE]
        ELSE
        Bind(compute_hash_cache_key(Top(st), opcode = 169), LAMBDA key :
            IF LruContains(cache, key) /\ Len(LruPeek(cache, key)) = n
            THEN [ret |-> Ok(TRUE),
                  stack |-> Append(Pop(st, 1), LruPeek(cache, key)),
                  cache |-> cache, hit |-> TRUE]
            ELSE [ret |-> Ok(TRUE),
                  stack |-> Append(Pop(st, 1), DigestBytes(n, Top(st))),
                  cache |-> LruPut(cache, key, DigestBytes(n, Top(st)),
                                   HASH_CACHE_CAPACITY),
                  hit |-> FALSE])

InitHash ==
    /\ PoolIdle
    /\ SyncIdle
    /\ script = <<169>>
    /\ stack = <<>>
    /\ vm_calls = 0
    /\ script_cache = <<>>
    /\ production = TRUE
    /\ last = [op |-> "none"]
    /\ tx = Transaction(<<>>, <<>>)
    /\ utxo_set = EmptyUtxoSet
    /\ height = 0
    /\ coinbase_outpoints = {}
    /\ tx_result = NoResult
    /\ inputs_result = NoResult
    /\ current_chain = <<>>
    /\ new_chain = <<>>
    /\ overflow_checks = TRUE

\* OP_HASH160 or OP_HASH256 in production mode on one of the stacks
ExecuteHashOpcode ==
    \E opcode \in {169, 170}, st \in HashStacks :
        \E r \in {execute_hash_opcode_production(opcode, st, hash_cache)} :
            /\ script' = <<opcode>>
            /\ stack' = r.stack
            /\ hash_cache' = r.cache
            /\ last' = [op |-> "execute_opcode", opcode |-> opcode,
                        stack_before |-> st, hit |-> r.hit, ret |-> r.ret]
            /\ UNCHANGED <<vm_calls, script_cache, production>>
            /\ UNCHANGED <<calls, stack_pool>>
            /\ UNCHANGED <<utxo_set, height, current_chain, new_chain, overflow_checks>>
            /\ UNCHANGED <<txVars, syncVars>>

\* Hash opcodes on HASH_CACHE_CAPACITY - 1 further items, one after the
\* other: each has a key of its own and misses the cache
HashOtherItems ==
    /\ hash_cache' = LruPutOthers(hash_cache, HASH_CACHE_CAPACITY - 1,
                                  HASH_CACHE_CAPACITY)
    /\ last' = [op |-> "hash_other_items"]
    /\ UNCHANGED <<script, stack, vm_calls, script_cache, production>>
    /\ UNCHANGED <<calls, stack_pool>>
    /\ UNCHANGED <<utxo_set, height, current_chain, new_chain, overflow_checks>>
    /\ UNCHANGED <<txVars, syncVars>>

NextHash == ExecuteHashOpcode \/ HashOtherItems

SpecHash == InitHash /\ [][NextHash]_vars

\* C34: with the hash cache, OP_HASH160 and OP_HASH256 pop one element x
\* and push exactly the bytes they push without the cache, after any
\* sequence of earlier hash operations; an entry stored for one of the two
\* opcodes is never served for the other on the same input
C34_HashCacheRefines ==
    /\ last.op = "execute_opcode" =>
          /\ last.ret = execute_opcode(last.opcode, last.stack_before).ret
          /\ stack = execute_opcode(last.opcode, last.stack_before).stack
    /\ \A x \in HashItems :
          /\ compute_hash_cache_key(x, TRUE) # compute_hash_cache_key(x, FALSE)
          /\ LruContains(hash_cache, compute_hash_cache_key(x, TRUE)) =>
                LruPeek(hash_cache, compute_hash_cache_key(x, TRUE))
                    = DigestBytes(20, x)
          /\ LruContains(hash_cache, compute_hash_cache_key(x, FALSE)) =>
                LruPeek(hash_cache, compute_hash_cache_key(x, FALSE))
                    = DigestBytes(32, x)

\* OP_HASH160 is served from the cache for an item whose OP_HASH256 entry
\* is in the cache too, with another item's entries next to them
C34_Witness ==
    /\ last.op = "execute_opcode"
    /\ last.opcode = 169
    /\ last.hit
    /\ LruContains(hash_cache,
                   compute_hash_cache_key(Top(last.stack_before), FALSE))
    /\ \E x \in HashItems :
          /\ x # Top(last.stack_before)
          /\ LruContains(hash_cache, compute_hash_cache_key(x, TRUE))


\* ---------------------------------------------------------------------
\* Concurrent verify_script calls on the process-wide script cache
\* ---------------------------------------------------------------------

\* The threads that call verify_script
MaxThreads == 2

Threads == 1..MaxThreads

IdleCall == [pc |-> "idle"]

\* What last.stored_for holds after a put: for each key the inputs of the
\* call that stored its entry
StoredFor(stored_for, call) ==
    {e \in stored_for : e.key # call.key}
        \cup {[key |-> call.key, script_sig |-> call.script_sig,
               script_pubkey |-> call.script_pubkey]}

InitConcurrent ==
    /\ SyncIdle
    /\ calls = [t \in Threads |-> IdleCall]
    /\ hash_cache = <<>>
    /\ stack_pool = <<>>
    /\ script = <<81>>
    /\ stack = <<>>
    /\ vm_calls = 0
    /\ script_cache = <<>>
    /\ production = TRUE
    /\ last = [op |-> "none", stored_for |-> {}, stored_ever |-> {}]
    /\ tx = Transaction(<<>>, <<>>)
    /\ utxo_set = EmptyUtxoSet
    /\ height = 0
    /\ coinbase_outpoints = {}
    /\ tx_result = NoResult
    /\ inputs_result = NoResult
    /\ current_chain = <<>>
    /\ new_chain = <<>>
    /\ overflow_checks = TRUE

ConcurrentUnchanged ==
    /\ UNCHANGED <<script, stack, vm_calls, production, hash_cache, stack_pool>>
    /\ UNCHANGED <<utxo_set, height, current_chain, new_chain, overflow_checks>>
    /\ UNCHANGED <<txVars, syncVars>>

\* A thread enters verify_script and computes the key of its inputs
CallVerifyScript(t) ==
    /\ calls[t].pc = "idle"
    /\ \E script_sig \in {<<81>>}, script_pubkey \in PubkeyScripts :
          calls' = [calls EXCEPT ![t] =
                       [pc |-> "lookup",
                        script_sig |-> script_sig,
                        script_pubkey |-> script_pubkey,
                        key |-> compute_script_cache_key(
                                    script_sig, script_pubkey, None, 0)]]
    /\ last' = [last EXCEPT !.op = "call"]
    /\ UNCHANGED script_cache
    /\ ConcurrentUnchanged

\* Under the read lock: cache.peek; a hit returns the cached value
CacheLookup(t) ==
    /\ calls[t].pc = "lookup"
    /\ calls' = [calls EXCEPT ![t] =
                    IF LruContains(script_cache, @.key)
                    THEN [pc |-> "returned",
                          script_sig |-> @.script_sig,
                          script_pubkey |-> @.script_pubkey,
                          key |-> @.key,
                          hit |-> TRUE,
                          ret |-> Ok(LruPeek(script_cache, @.key))]
                    ELSE [@ EXCEPT !.pc = "evaluate"]]
    /\ last' = [last EXCEPT !.op = "lookup"]
    /\ UNCHANGED script_cache
    /\ ConcurrentUnchanged

\* No lock is held: the scripts are evaluated on the thread's own stack.
\* An Err leaves verify_script at once
EvaluateScripts(t) ==
    /\ calls[t].pc = "evaluate"
    /\ \E r \in {VerifyOnFreshStack(calls[t].script_sig,
                                    calls[t].script_pubkey, None, 0)} :
          calls' = [calls EXCEPT ![t] =
                       IF r.ret.kind # "Ok"
                       THEN [pc |-> "returned",
                             script_sig |-> @.script_sig,
                             script_pubkey |-> @.script_pubkey,
                             key |-> @.key,
                             hit |-> FALSE,
                             ret |-> r.ret]
                       ELSE [pc |-> "insert",
                             script_sig |-> @.script_sig,
                             script_pubkey |-> @.script_pubkey,
                             key |-> @.key,
                             result |-> r.ret.value]]
    /\ last' = [last EXCEPT !.op = "evaluate"]
    /\ UNCHANGED script_cache
    /\ ConcurrentUnchanged

\* Under the write lock: cache.put of the result, which is then returned
CacheInsert(t) ==
    /\ calls[t].pc = "insert"
    /\ script_cache' = LruPut(script_cache, calls[t].key, calls[t].result,
                              SCRIPT_CACHE_CAPACITY)
    /\ calls' = [calls EXCEPT ![t] =
                    [pc |-> "returned",
                     script_sig |-> @.script_sig,
                     script_pubkey |-> @.script_pubkey,
                     key |-> @.key,
                     hit |-> FALSE,
                     ret |-> Ok(@.result)]]
    /\ last' = [op |-> "insert",
                stored_for |-> StoredFor(last.stored_for, calls[t]),
                stored_ever |-> last.stored_ever
                                   \cup StoredFor({}, calls[t])]
    /\ ConcurrentUnchanged

\* The caller has the value; the thread is free for its next call
ReturnFromVerifyScript(t) ==
    /\ calls[t].pc = "returned"
    /\ calls' = [calls EXCEPT ![t] = IdleCall]
    /\ last' = [last EXCEPT !.op = "return"]
    /\ UNCHANGED script_cache
    /\ ConcurrentUnchanged

NextConcurrent ==
    \E t \in Threads :
        \/ CallVerifyScript(t)
        \/ CacheLookup(t)
        \/ EvaluateScripts(t)
        \/ CacheInsert(t)
        \/ ReturnFromVerifyScript(t)

SpecConcurrent == InitConcurrent /\ [][NextConcurrent]_vars

ReturnedFreshUnlessKeyShared ==
    \A t \in Threads :
        (/\ calls[t].pc = "returned"
         /\ \A e \in last.stored_ever :
               e.key = calls[t].key =>
                  /\ e.script_sig = calls[t].script_sig
                  /\ e.script_pubkey = calls[t].script_pubkey)
        => calls[t].ret = VerifyOnFreshStack(calls[t].script_sig,
                                             calls[t].script_pubkey,
                                             None, 0).ret


\* ---------------------------------------------------------------------
\* Inputs that name one outpoint twice, checked under SpecTx
\* ---------------------------------------------------------------------

\* Two inputs of the transaction reference the same outpoint
HasDuplicateInputs(t) ==
    \E i, j \in 1..Len(t.inputs) :
        i < j /\ t.inputs[i].prevout = t.inputs[j].prevout

\* The total value of the distinct UTXOs the inputs spend (all of them
\* found): each outpoint counts where it is named first
DistinctInputValue(t, us) ==
    SumSeq([i \in 1..Len(t.inputs) |->
               IF \E j \in 1..(i - 1) :
                      t.inputs[j].prevout = t.inputs[i].prevout
               THEN 0
               ELSE us[t.inputs[i].prevout].value])

\* C36: check_tx_inputs never counts one UTXO twice: a non-coinbase
\* transaction in which two inputs reference the same outpoint is Invalid,
\* so the fee of a Valid result equals the total value of the distinct
\* UTXOs spent minus the sum of the outputs
C36_NoUtxoCountedTwice ==
    (inputs_result # NoResult /\ ~is_coinbase(tx)) =>
        /\ HasDuplicateInputs(tx) => inputs_result.result.kind = "Invalid"
        /\ inputs_result.result = Valid =>
              inputs_result.fee
                 = DistinctInputValue(tx, utxo_set) - TotalOutputValue(tx)

\* The fee of a Valid result is the sum over the inputs, each counted as
\* often as it is named, minus the sum of the outputs
FeeCountsEveryInput ==
    (inputs_result # NoResult /\ ~is_coinbase(tx)
        /\ inputs_result.result = Valid) =>
        inputs_result.fee
           = TotalInputValue(tx, utxo_set) - TotalOutputValue(tx)


\* ---------------------------------------------------------------------
\* The height arithmetic of reorganize_chain, checked under SpecReorg
\* ---------------------------------------------------------------------

\* current_height - current_chain.len() is taken first, in the unsigned
\* height type: it is below zero when the height is below the length
StartHeightUnderflows(current_height, n) == current_height - n < 0

\* C39: the height arithmetic of reorganize_chain never underflows the
\* unsigned height type: for every non-empty current chain with
\* current_height >= |current_chain| - 1 the computation of the starting
\* height completes without wrapping below zero
C39_StartHeightNeverUnderflows ==
    (/\ last.op = "reorganize_chain"
     /\ Len(last.old_chain) >= 1
     /\ last.old_height >= Len(last.old_chain) - 1) =>
        /\ last.ret.kind # "Panic"
        /\ last.ret.kind = "Ok" =>
              ~StartHeightUnderflows(last.old_height, Len(last.old_chain))

\* With current_height >= |current_chain| the subtraction stays in range
\* and reorganize_chain does not panic
StartHeightInRangeFromLength ==
    (/\ last.op = "reorganize_chain"
     /\ last.old_height >= Len(last.old_chain)) =>
        /\ last.ret.kind # "Panic"
        /\ ~StartHeightUnderflows(last.old_height, Len(last.old_chain))


\* ---------------------------------------------------------------------
\* The range of the accumulated chain work, checked under SpecWork
\* ---------------------------------------------------------------------

\* Every header of the chain has bits that expand_target accepts
AllBitsAccepted(chain) ==
    \A i \in 1..Len(chain) : expand_target(chain[i].header.bits).kind = "Ok"

\* total_work += u128::MAX / target leaves the range of u128 for some block
\* from block i on, total_work so far
RECURSIVE WorkSumOverflowsFrom(_, _, _)
WorkSumOverflowsFrom(chain, i, total_work) ==
    IF i > Len(chain) THEN FALSE
    ELSE LET target == expand_target(chain[i].header.bits)
         IN  IF target.kind # "Ok" THEN FALSE
             ELSE IF target.value.m > 0
             THEN LET sum == U128Add(total_work, U128MaxDiv(target.value))
                  IN  \/ sum.carry > 0
                      \/ WorkSumOverflowsFrom(chain, i + 1, sum.digits)
             ELSE WorkSumOverflowsFrom(chain, i + 1, total_work)

\* C37: the u128 accumulation in calculate_chain_work never overflows: for
\* every chain whose headers all have bits that expand_target accepts, the
\* running sum of per-header work stays at or below u128::MAX
C37_ChainWorkSumInRange ==
    (last.op = "calculate_chain_work" /\ AllBitsAccepted(last.chain)) =>
        /\ last.ret.kind = "Ok"
        /\ ~WorkSumOverflowsFrom(last.chain, 1, U128Zero)

\* A chain of one header never leaves the range: its work is at most
\* u128::MAX / 1
OneHeaderWorkInRange ==
    (last.op = "calculate_chain_work" /\ AllBitsAccepted(last.chain)
        /\ Len(last.chain) <= 1) =>
        /\ last.ret.kind = "Ok"
        /\ ~WorkSumOverflowsFrom(last.chain, 1, U128Zero)


\* ---------------------------------------------------------------------
\* Compact values up to the maximum target, checked under SpecTarget
\* ---------------------------------------------------------------------

\* constants::MAX_TARGET, 0x1d00ffff
MAX_TARGET == 486604799

\* The target a compact value stands for, as the pair [m, s] (m * 2^s):
\* mantissa * 256^(exponent - 3), and mantissa / 256^(3 - exponent) for
\* exponent <= 3
CompactTarget(bits) ==
    LET exponent == (bits \div 16777216) % 256
        mantissa == bits % 16777216
    IN  IF exponent <= 3
        THEN [m |-> mantissa \div (2 ^ (8 * (3 - exponent))), s |-> 0]
        ELSE [m |-> mantissa, s |-> 8 * (exponent - 3)]

\* a <= b for two targets m * 2^s with m below 2^24
TargetLeq(a, b) ==
    IF a.m = 0 THEN TRUE
    ELSE IF b.m = 0 THEN FALSE
    ELSE IF a.s <= b.s
    THEN \/ b.s - a.s >= 24
         \/ (a.m + 2 ^ (b.s - a.s) - 1) \div (2 ^ (b.s - a.s)) <= b.m
    ELSE /\ a.s - b.s < 24
         /\ a.m <= b.m \div (2 ^ (a.s - b.s))

\* C38: expand_target succeeds for every compact bits value whose target
\* is at most the network maximum target 0x1d00ffff, and returns exactly
\* mantissa * 256^(exponent - 3) for exponent > 3; consequently
\* calculate_chain_work does not fail on a header at minimum difficulty
C38_ExpandTargetUpToMaxTarget ==
    /\ (/\ last.op = "expand_target"
        /\ TargetLeq(CompactTarget(last.bits), CompactTarget(MAX_TARGET))) =>
          /\ last.ret.kind = "Ok"
          /\ last.ret.value = CompactTarget(last.bits)
    /\ last.op = "expand_target" =>
          calculate_chain_work(<<TestBlock(MAX_TARGET)>>).kind = "Ok"

\* For the exponents whose shift fits the u8 it is computed in (up to 34),
\* expand_target returns Ok exactly for exponents up to 15, and the value
\* is then the target of the compact value
ExpandTargetOkUpToExponent15 ==
    (last.op = "expand_target" /\ (last.bits \div 16777216) % 256 <= 34) =>
        /\ last.ret.kind = "Ok" => last.ret.value = CompactTarget(last.bits)
        /\ last.ret.kind = "Ok" <=> (last.bits \div 16777216) % 256 <= 15

====
